---------------------------- MODULE Spec2Model ----------------------------
(***************************************************************************)
(* A model of the helper functions of scripts/_helpers.py:                 *)
(*   - the country-code resolver (two_2_three_digits_country,              *)
(*     three_2_two_digits_country, create_country_list),                   *)
(*   - the network-topology builder (create_network_topology),             *)
(*   - the administrative-boundary locator (locate_bus).                   *)
(* Every function is a pure operator computed the way the code computes    *)
(* it; one action per call stores the inputs and the outcome of the call.  *)
(* Country codes and region tokens are strings.  Bus names, index keys     *)
(* and polygon identifiers are sequences of one-character strings, so      *)
(* that Python's lexicographic comparison and substring test are computed  *)
(* character by character.                                                 *)
(***************************************************************************)
EXTENDS Integers, Sequences, FiniteSets, TLC

VARIABLES
    \* country-code resolver
    cpc,              \* "idle" | "three" | "two" | "list"
    code,             \* argument of two_2_three_digits_country
    three_code,       \* its result
    two_code,         \* result of three_2_two_digits_country(three_code)
    calls,            \* arguments handed to coco.convert, in call order
    tokens,           \* argument `input` of create_country_list
    iso_coding,       \* argument iso_coding of create_country_list
    full_codes_list,  \* its result
    warning,          \* what filter_codes logged with _logger.warning
    name_call,        \* arguments of two_digits_2_name_country
    name_before,      \* its full_name when the loop over remove_start_words starts
    name_out,         \* the name it returns
    name_in,          \* argument country_name of country_name_2_two_digits
    name_code,        \* its result
    \* network-topology builder
    tpc,              \* "idle" | "done" (the call returned) | "raised" (it
                      \* was left by a ValueError)
    lines,            \* n.lines  : sequence of [bus0, bus1, length]
    links,            \* n.links  : sequence of rows, one field per column
    links_columns,    \* n.links.columns
    bidirectional,    \* argument bidirectional
    topo,             \* the returned table: sequence of rows (none when the
                      \* call raised)
    \* administrative-boundary locator
    lpc,              \* "idle" | "done"
    gdf,              \* the boundary layer: sequence of [name, lo, hi], names distinct
    co,               \* argument co
    point,            \* the coordinate
    bus,              \* outcome of locate_bus: [kind, value]
    \* file readers
    fpc,              \* "idle" | "csv" | "geojson"
    file,             \* the file on disk: [kind, cells]
    read_call,        \* arguments of the reader that was called
    read_out,         \* its outcome: [kind, value]
    \* GADM download and layer selection
    gpc,              \* "idle" | "download" | "layer"
    gadm_files,       \* per archive name: 0 when the gpkg file is absent, else
                      \* the number of the download that wrote it
    downloads,        \* number of requests.get calls made so far
    gadm_call,        \* arguments of the last call, and whether it fetched
    gadm_reads,       \* the gpd.read_file(file, layer) calls of get_gadm_layer
    gadm_out,         \* outcome of the last call: [kind, value]
    \* cost aggregation
    kpc,              \* "idle" | "done"
    network,          \* the components of n: sequence of assets
    costs_call,       \* arguments flatten, opts, existing_only
    costs_out,        \* outcome of aggregate_costs: [kind, value]
    \* cyclic shift
    spc,              \* "idle" | "done"
    frame,            \* the caller's df: [index, values, blocks]
    shift_call,       \* arguments of cycling_shift: df as it was given, steps
    shift_out,        \* outcome of cycling_shift: [kind, value]
    \* build_cutout
    upc,              \* "idle" | "done"
    cutout_params,    \* snakemake.params.cutouts[cutout]: a dict, key -> value
    onshore,          \* geometries of the onshore regions: boxes
    offshore,         \* geometries of the offshore regions: boxes
    given,            \* cutout_params as the configuration supplied it
    prepared,         \* what atlite.Cutout and cutout.prepare were given
    \* the process working directory
    wpc,              \* "idle" | "commit" | "loop" | "done"
    cwd,              \* os.getcwd(): the folder names from "/" downwards
    commit_call,      \* arguments of get_last_commit_message, what git did,
                      \* and backup_cwd
    commit_out,       \* its outcome and whether it logged a warning
    root_call,        \* arguments of sets_path_to_root and where it started
    loop_n,           \* its loop variable n
    printed           \* what it has printed so far

name_vars == <<name_call, name_before, name_out, name_in, name_code>>
country_vars == <<cpc, code, three_code, two_code, calls, tokens, iso_coding,
                  full_codes_list, warning, name_vars>>
topology_vars == <<tpc, lines, links, links_columns, bidirectional, topo>>
locate_vars == <<lpc, gdf, co, point, bus>>
files_vars == <<fpc, file, read_call, read_out>>
gadm_vars == <<gpc, gadm_files, downloads, gadm_call, gadm_reads, gadm_out>>
costs_vars == <<kpc, network, costs_call, costs_out>>
shift_vars == <<spc, frame, shift_call, shift_out>>
cutout_vars == <<upc, cutout_params, onshore, offshore, given, prepared>>
workdir_vars == <<wpc, cwd, commit_call, commit_out, root_call, loop_n, printed>>
vars == <<country_vars, topology_vars, locate_vars, files_vars, gadm_vars,
          costs_vars, shift_vars, cutout_vars, workdir_vars>>

(***************************************************************************)
(* Bounds of the model.                                                    *)
(***************************************************************************)
MaxTokens == 3
MaxRows == 3
MaxPolygons == 2
MaxCells == 2
MaxDownloads == 3
MaxCountries == 2
MaxAssets == 3
MaxLen == 3
MaxRegions == 2
MaxDepth == 3
MaxN == 3

(***************************************************************************)
(* Generic helpers.                                                        *)
(***************************************************************************)
Range(s) == {s[i] : i \in DOMAIN s}

SeqsUpTo(S, n) == UNION {[1..k -> S] : k \in 0..n}

\* The injective sequences enumerating a finite set: the orders in which
\* Python may iterate a set.
RECURSIVE Orderings(_)
Orderings(S) ==
    IF S = {} THEN {<<>>}
    ELSE UNION {{<<x>> \o s : s \in Orderings(S \ {x})} : x \in S}

\* The permutations of a sequence.
SeqPermutations(s) ==
    {[i \in DOMAIN s |-> s[p[i]]] : p \in Orderings(DOMAIN s)}

\* Python str.join over a sequence of strings given as character sequences.
RECURSIVE Flatten(_)
Flatten(ss) == IF ss = <<>> THEN <<>> ELSE Head(ss) \o Flatten(Tail(ss))

\* The outcome of a call: the value it returns, or the exception it raises.
Returned(value) == [kind |-> "return", value |-> value]
ValueError == [kind |-> "ValueError", value |-> <<>>]

(***************************************************************************)
(* Country-code resolver.                                                  *)
(***************************************************************************)
\* The rows of the conversion table of the country_converter package that
\* the model uses (columns ISO2, ISO3, name_short).
CountryData ==
    << [ISO2 |-> "SN", ISO3 |-> "SEN", name_short |-> "Senegal"],
       [ISO2 |-> "GM", ISO3 |-> "GMB", name_short |-> "Gambia"],
       [ISO2 |-> "NG", ISO3 |-> "NGA", name_short |-> "Nigeria"],
       [ISO2 |-> "ZA", ISO3 |-> "ZAF", name_short |-> "South Africa"],
       [ISO2 |-> "NA", ISO3 |-> "NAM", name_short |-> "Namibia"],
       [ISO2 |-> "EG", ISO3 |-> "EGY", name_short |-> "Egypt"],
       [ISO2 |-> "CD", ISO3 |-> "COD", name_short |-> "DR Congo"] >>

ISO2Codes == {CountryData[i].ISO2 : i \in DOMAIN CountryData}

\* What coco.convert returns for a name it cannot resolve (its default
\* not_found argument); it logs a warning and raises nothing.
NotFound == "not found"

\* coco.convert(names, to=to) with src=None: the source classification is
\* chosen from the length of the name (2 -> ISO2, 3 -> ISO3, otherwise the
\* name is matched against the country names), the matching row is looked
\* up and its `to` column returned.
coco_convert(names, to) ==
    LET src == IF Len(names) = 2 THEN "ISO2"
               ELSE IF Len(names) = 3 THEN "ISO3" ELSE "name_short"
        hits == {i \in DOMAIN CountryData : CountryData[i][src] = names}
    IN  IF hits = {} THEN NotFound
        ELSE CountryData[CHOOSE i \in hits : TRUE][to]

Call(names, to) == [names |-> names, to |-> to]

\* A function's outcome: the value it returns and the coco.convert calls
\* it made.
Outcome(out, made) == [out |-> out, calls |-> made]

\* Variant without the composite branch: every code goes to coco.convert.
two_2_three_without_composite(two_code_country) ==
    Outcome(coco_convert(two_code_country, "ISO3"),
            <<Call(two_code_country, "ISO3")>>)

RECURSIVE two_2_three_digits_country(_)
two_2_three_digits_country(two_code_country) ==
    IF two_code_country = "SN-GM"
    THEN LET a == two_2_three_digits_country("SN")
             b == two_2_three_digits_country("GM")
         IN  Outcome(a.out \o "-" \o b.out, a.calls \o b.calls)
    ELSE Outcome(coco_convert(two_code_country, "ISO3"),
                 <<Call(two_code_country, "ISO3")>>)

\* Variant that converts to the wrong classification (to="ISO3").
three_2_two_to_ISO3(three_code_country) ==
    Outcome(coco_convert(three_code_country, "ISO3"),
            <<Call(three_code_country, "ISO3")>>)

RECURSIVE three_2_two_digits_country(_)
three_2_two_digits_country(three_code_country) ==
    IF three_code_country = "SEN-GMB"
    THEN LET a == three_2_two_digits_country("SN")
             b == three_2_two_digits_country("GM")
         IN  Outcome(a.out \o "-" \o b.out, a.calls \o b.calls)
    ELSE Outcome(coco_convert(three_code_country, "ISO2"),
                 <<Call(three_code_country, "ISO2")>>)

\* A sample of configs/regions_definition_config.yaml: world_iso maps a
\* continent to its country codes, continent_regions a region to a list.
\* One code is listed under two continents.
world_iso ==
    [Africa |-> <<"NG", "ZA", "SN-GM", "EG">>, Asia |-> <<"EG">>]

continent_regions ==
    [SAPP |-> <<"ZA", "NG">>]

Continents == <<"Africa", "Asia">>

\* Variant that logs whenever the kept list is not longer than the input
\* (len(ret_list) <= len(c_list)).
filter_codes_always_warns(c_list, iso) ==
    IF iso
    THEN LET ret_list == SelectSeq(c_list, LAMBDA c : Len(c) = 2)
         IN  [ret |-> ret_list,
              warning |-> [logged |-> TRUE,
                           codes |-> Range(c_list) \ Range(ret_list)]]
    ELSE [ret |-> c_list, warning |-> [logged |-> FALSE, codes |-> {}]]

\* filter_codes: with iso_coding keep the 2-character codes, and warn with
\* the set of removed codes when something was removed.
filter_codes(c_list, iso) ==
    IF iso
    THEN LET ret_list == SelectSeq(c_list, LAMBDA c : Len(c) = 2)
         IN  [ret |-> ret_list,
              warning |-> IF Len(ret_list) < Len(c_list)
                          THEN [logged |-> TRUE,
                                codes |-> Range(c_list) \ Range(ret_list)]
                          ELSE [logged |-> FALSE, codes |-> {}]]
    ELSE [ret |-> c_list, warning |-> [logged |-> FALSE, codes |-> {}]]

\* Variant in which the loop over the continents assigns instead of
\* extending, so that "Earth" stands for the last continent only.
codes_list_last_continent(value1) ==
    IF value1 = "Earth"
    THEN world_iso[Continents[Len(Continents)]]
    ELSE IF value1 \in DOMAIN world_iso THEN world_iso[value1]
    ELSE IF value1 \in DOMAIN continent_regions THEN continent_regions[value1]
    ELSE <<value1>>

\* The codes one input token stands for (the body of the for loop).
codes_list(value1) ==
    IF value1 = "Earth"
    THEN Flatten([i \in DOMAIN Continents |-> world_iso[Continents[i]]])
    ELSE IF value1 \in DOMAIN world_iso THEN world_iso[value1]
    ELSE IF value1 \in DOMAIN continent_regions THEN continent_regions[value1]
    ELSE <<value1>>

\* full_codes_list after the loop over the input, before deduplication.
RECURSIVE expand_input(_)
expand_input(input) ==
    IF input = <<>> THEN <<>>
    ELSE codes_list(Head(input)) \o expand_input(Tail(input))

\* list(set(full_codes_list)): the distinct codes, in any order.
\* Variant without the deduplication: list(full_codes_list).
list_without_set(full) == {full}

list_set(full) == Orderings(Range(full))

\* The outcomes of create_country_list(input, iso_coding), one per order
\* in which the set of codes may be listed.
create_country_list(input, iso) ==
    {filter_codes(deduped, iso) : deduped \in list_set(expand_input(input))}

(***************************************************************************)
(* Strings as sequences of characters.                                     *)
(***************************************************************************)
\* The characters the model uses, in ascending code point order.
CharOrder == <<" ", "-", ".", "1", "2", "<", ">", "A", "B", "D", "G", "M", "N", "Z">>

ord(ch) == CHOOSE i \in DOMAIN CharOrder : CharOrder[i] = ch

\* Python's a < b on str: the first differing character decides, and a
\* proper prefix is smaller.
RECURSIVE str_lt(_, _)
str_lt(a, b) ==
    IF b = <<>> THEN FALSE
    ELSE IF a = <<>> THEN TRUE
    ELSE IF Head(a) = Head(b) THEN str_lt(Tail(a), Tail(b))
    ELSE ord(Head(a)) < ord(Head(b))

\* Python's `sub in s`.
str_contains(s, sub) ==
    \E i \in 0..(Len(s) - Len(sub)) : SubSeq(s, i + 1, i + Len(sub)) = sub

(***************************************************************************)
(* Country names.  A name is a sequence of characters; the 2-letter codes  *)
(* stay strings.                                                           *)
(***************************************************************************)
\* The name columns of the conversion table for the codes the model names,
\* character by character.  The names of CD are the ones the docstring of
\* two_digits_2_name_country gives for name_short and name_official.
CountryNames ==
    [SN |-> [name_short |-> <<"S", "e", "n", "e", "g", "a", "l">>,
             name_official |-> <<"R", "e", "p", "u", "b", "l", "i", "c", " ", "o", "f", " ", 
                              "S", "e", "n", "e", "g", "a", "l">>],
     GM |-> [name_short |-> <<"G", "a", "m", "b", "i", "a">>,
             name_official |-> <<"R", "e", "p", "u", "b", "l", "i", "c", " ", "o", "f", " ", 
                              "T", "h", "e", " ", "G", "a", "m", "b", "i", "a">>],
     CD |-> [name_short |-> <<"D", "R", " ", "C", "o", "n", "g", "o">>,
             name_official |-> <<"D", "e", "m", "o", "c", "r", "a", "t", "i", "c", " ", "R",
                              "e", "p", "u", "b", "l", "i", "c", " ", "o", "f", " ", "t",
                              "h", "e", " ", "C", "o", "n", "g", "o">>]]

\* "not found" as a name.
NotFoundName == <<"n", "o", "t", " ", "f", "o", "u", "n", "d">>

\* coco.convert(two_code_country, to=name_string) for a name column.
coco_convert_to_name(two_code_country, name_string) ==
    IF two_code_country \in DOMAIN CountryNames
    THEN CountryNames[two_code_country][name_string]
    ELSE NotFoundName

\* coco.convert(country_name, to="ISO2") for a name: the code of the row
\* whose name it is.
coco_convert_name(country_name) ==
    LET hits == {c \in DOMAIN CountryNames :
                    country_name \in {CountryNames[c].name_short,
                                      CountryNames[c].name_official}}
    IN  IF hits = {} THEN NotFound ELSE CHOOSE c \in hits : TRUE

\* str.startswith
startswith(s, word) ==
    Len(word) <= Len(s) /\ SubSeq(s, 1, Len(word)) = word

\* str.find: the first position at which sub occurs in s, 0 when none
\* (positions counted from 1).
find(s, sub) ==
    LET hits == {i \in 1..(Len(s) - Len(sub) + 1) :
                    SubSeq(s, i, i + Len(sub) - 1) = sub}
    IN  IF hits = {} THEN 0 ELSE CHOOSE i \in hits : \A j \in hits : i <= j

\* s.replace(word, "", 1): the first occurrence of word is removed.
replace_first(s, word) ==
    LET i == find(s, word)
    IN  IF i = 0 THEN s
        ELSE SubSeq(s, 1, i - 1) \o SubSeq(s, i + Len(word), Len(s))

\* s.split(sep)
RECURSIVE split(_, _)
split(s, sep) ==
    LET i == find(s, sep)
    IN  IF i = 0 THEN <<s>>
        ELSE <<SubSeq(s, 1, i - 1)>> \o split(SubSeq(s, i + Len(sep), Len(s)), sep)

\* list.reverse
reverse(l) == [i \in DOMAIN l |-> l[Len(l) + 1 - i]]

\* sep.join(l)
RECURSIVE join(_, _)
join(sep, l) ==
    IF l = <<>> THEN <<>>
    ELSE IF Len(l) = 1 THEN l[1]
    ELSE l[1] \o sep \o join(sep, Tail(l))

\* The no_comma step: split at ", ", reverse, join with " ".
no_comma_name(full_name) == join(<<" ">>, reverse(split(full_name, <<",", " ">>)))

\* Variant of the loop that stops at the first word it removed.
RECURSIVE remove_first_start_word(_, _)
remove_first_start_word(full_name, remove_start_words) ==
    IF remove_start_words = <<>> THEN full_name
    ELSE IF startswith(full_name, Head(remove_start_words))
    THEN replace_first(full_name, Head(remove_start_words))
    ELSE remove_first_start_word(full_name, Tail(remove_start_words))

\* The loop over remove_start_words: every word, in list order, is removed
\* from the name as it stands when the name starts with it.
RECURSIVE remove_words(_, _)
remove_words(full_name, remove_start_words) ==
    IF remove_start_words = <<>> THEN full_name
    ELSE remove_words(IF startswith(full_name, Head(remove_start_words))
                      THEN replace_first(full_name, Head(remove_start_words))
                      ELSE full_name,
                      Tail(remove_start_words))

\* two_digits_2_name_country: `before` is full_name when the loop over
\* remove_start_words is reached, `out` the returned name.  The composite
\* code returns before that, from two calls with the default arguments.
two_digits_2_name_country(two_code_country, name_string, no_comma, remove_start_words) ==
    IF two_code_country = "SN-GM"
    THEN LET composite == coco_convert_to_name("SN", "name_short") \o <<"-">>
                             \o coco_convert_to_name("GM", "name_short")
         IN  [before |-> composite, out |-> composite]
    ELSE LET converted == coco_convert_to_name(two_code_country, name_string)
             full_name == IF no_comma THEN no_comma_name(converted)
                          ELSE converted
         IN  [before |-> full_name,
              out |-> remove_words(full_name, remove_start_words)]

\* Variant that falls back to an empty code for a name that is not found.
country_name_2_two_digits_or_empty(country_name) ==
    IF country_name = two_digits_2_name_country("SN-GM", "name_short", FALSE, <<>>).out
    THEN "SN-GM"
    ELSE IF coco_convert_name(country_name) = NotFound THEN ""
    ELSE coco_convert_name(country_name)

\* country_name_2_two_digits
country_name_2_two_digits(country_name) ==
    IF country_name = two_digits_2_name_country("SN", "name_short", FALSE, <<>>).out
                         \o <<"-">>
                         \o two_digits_2_name_country("GM", "name_short", FALSE, <<>>).out
    THEN "SN-GM"
    ELSE coco_convert_name(country_name)

(***************************************************************************)
(* Exact arithmetic for DataFrame.mean(): a mean is kept as the reduced    *)
(* fraction num/den.                                                       *)
(***************************************************************************)
RECURSIVE GCD(_, _)
GCD(a, b) == IF b = 0 THEN a ELSE GCD(b, a % b)

Fraction(num, den) ==
    LET g == GCD(num, den) IN [num |-> num \div g, den |-> den \div g]

RECURSIVE SumSeq(_)
SumSeq(s) == IF s = <<>> THEN 0 ELSE Head(s) + SumSeq(Tail(s))

mean(values) == Fraction(SumSeq(values), Len(values))

(***************************************************************************)
(* Network-topology builder.                                               *)
(***************************************************************************)
\* The columns every link table has.
LinkAttrs == {"bus0", "bus1", "length", "carrier"}

\* n.links.columns after the temporary fix: "underwater_fraction" is there.
columns_with_underwater_fraction(columns) == columns \cup {"underwater_fraction"}

\* Variant that fills the missing column with 1.0.
set_underwater_fraction_one(lk) ==
    [i \in DOMAIN lk |->
        IF "underwater_fraction" \in DOMAIN lk[i] THEN lk[i]
        ELSE [bus0 |-> lk[i].bus0, bus1 |-> lk[i].bus1, length |-> lk[i].length,
              carrier |-> lk[i].carrier, underwater_fraction |-> 1]]

\* The rows of n.links after the temporary fix: when the column
\* "underwater_fraction" is missing, n.links["underwater_fraction"] = 0.0
\* writes 0.0 into every row (= None on an empty table, which has no row).
set_underwater_fraction(lk) ==
    [i \in DOMAIN lk |->
        IF "underwater_fraction" \in DOMAIN lk[i] THEN lk[i]
        ELSE [bus0 |-> lk[i].bus0, bus1 |-> lk[i].bus1, length |-> lk[i].length,
              carrier |-> lk[i].carrier, underwater_fraction |-> 0]]

\* Variant that keeps every link, whatever its carrier.
links_any_carrier(lk) == lk

\* n.links.loc[n.links.carrier == "DC", lk_attrs]
links_DC(lk) == SelectSeq(lk, LAMBDA r : r.carrier = "DC")

\* pd.concat([n.lines[ln_attrs], <DC links>]).fillna(0): the lines have no
\* underwater_fraction, which fillna sets to 0.
concat_candidates(ln, lk) ==
    [i \in DOMAIN ln |->
        [bus0 |-> ln[i].bus0, bus1 |-> ln[i].bus1, length |-> ln[i].length,
         underwater_fraction |-> 0]]
    \o
    [i \in DOMAIN links_DC(lk) |->
        [bus0 |-> links_DC(lk)[i].bus0, bus1 |-> links_DC(lk)[i].bus1,
         length |-> links_DC(lk)[i].length,
         underwater_fraction |-> links_DC(lk)[i].underwater_fraction]]

\* Variant that forgets to rename the columns.
rename_nothing(c) == c

\* DataFrame.rename(columns=swap_buses) on one row.
rename_swap_buses(c) == [c EXCEPT !.bus0 = c.bus1, !.bus1 = c.bus0]

positive_order(c) == str_lt(c.bus0, c.bus1)

\* candidates after the canonicalisation of the direction.
canonical_candidates(candidates) ==
    LET candidates_p == SelectSeq(candidates, LAMBDA c : positive_order(c))
        negative == SelectSeq(candidates, LAMBDA c : ~positive_order(c))
        candidates_n == [i \in DOMAIN negative |-> rename_swap_buses(negative[i])]
    IN  candidates_p \o candidates_n

make_index(c, prefix, connector) == prefix \o c.bus0 \o connector \o c.bus1

\* The group keys in the order groupby(["bus0", "bus1"]) lists them:
\* ascending by bus0, then by bus1.
key_lt(k, o) == str_lt(k[1], o[1]) \/ (k[1] = o[1] /\ str_lt(k[2], o[2]))

RECURSIVE sorted_keys(_)
sorted_keys(S) ==
    IF S = {} THEN <<>>
    ELSE LET m == CHOOSE k \in S : \A o \in S \ {k} : key_lt(k, o)
         IN  <<m>> \o sorted_keys(S \ {m})

\* Variant that takes the first row of a group instead of the mean.
group_first(rows, attr) == Fraction(rows[1][attr], 1)

\* The mean of one numeric column over the rows of a group.
group_mean(rows, attr) == mean([i \in DOMAIN rows |-> rows[i][attr]])

\* candidates.groupby(["bus0", "bus1"], as_index=False).mean()
groupby_mean(candidates) ==
    LET keys == sorted_keys({<<candidates[i].bus0, candidates[i].bus1>> :
                             i \in DOMAIN candidates})
    IN  [g \in DOMAIN keys |->
            LET rows == SelectSeq(candidates,
                                  LAMBDA c : <<c.bus0, c.bus1>> = keys[g])
            IN  [bus0 |-> keys[g][1], bus1 |-> keys[g][2],
                 length |-> group_mean(rows, "length"),
                 underwater_fraction |-> group_mean(rows, "underwater_fraction")]]

\* topo with its index column: topo.index = topo.apply(make_index, axis=1).
\* On a table without rows DataFrame.apply returns an empty DataFrame, not a
\* Series, and the assignment of a DataFrame as index raises ValueError.
with_index(rows, prefix, connector) ==
    IF rows = <<>> THEN ValueError
    ELSE Returned(
            [i \in DOMAIN rows |->
                [index |-> make_index(rows[i], prefix, connector),
                 bus0 |-> rows[i].bus0, bus1 |-> rows[i].bus1,
                 length |-> rows[i].length,
                 underwater_fraction |-> rows[i].underwater_fraction]])

\* Variant that swaps the columns but keeps the index of the forward rows.
topo_reverse_keeps_index(t, prefix, connector) ==
    [i \in DOMAIN t |-> rename_swap_buses(t[i])]

\* topo_reverse: the copy with bus0 and bus1 renamed and the index rebuilt.
topo_reverse(t, prefix, connector) ==
    with_index([i \in DOMAIN t |-> rename_swap_buses(t[i])], prefix, connector).value

create_network_topology(ln, lk, prefix, connector, bidir) ==
    LET candidates == canonical_candidates(
                          concat_candidates(ln, set_underwater_fraction(lk)))
        t == with_index(groupby_mean(candidates), prefix, connector)
    IN  IF t.kind # "return" THEN t
        ELSE IF ~bidir
        THEN Returned(t.value \o topo_reverse(t.value, prefix, connector))
        ELSE t

\* Inputs of the topology builder.
Buses == {<<"B">>, <<"A", " ", "<", "-", ">", " ", "B">>}
LineLengths == {1, 2}
LineRows == [bus0 : Buses, bus1 : Buses, length : LineLengths]
UnderwaterFractions == {1}
LinkRows == [bus0 : Buses, bus1 : Buses, length : {3}, carrier : {"DC", "H2"},
             underwater_fraction : UnderwaterFractions]
Prefix == <<"L">>
Connector == <<" ", "<", "-", ">", " ">>

(***************************************************************************)
(* Administrative-boundary locator.                                        *)
(* A polygon is the rectangle [lo, hi] x [0, 1] and the point is           *)
(* (point, 1/2), so that containment and distance are decided by the x     *)
(* coordinate alone.                                                       *)
(***************************************************************************)
\* shapely: polygon.contains(point) holds for the points of the interior.
contains(poly, x) == poly.lo < x /\ x < poly.hi

\* shapely: point.distance(polygon), 0 on the polygon and on its boundary.
distance(poly, x) ==
    IF x < poly.lo THEN poly.lo - x
    ELSE IF x > poly.hi THEN x - poly.hi
    ELSE 0

same_geometry(p, q) == p.lo = q.lo /\ p.hi = q.hi

\* Series.item(): the single element, ValueError for any other size.
item(rows) == IF Len(rows) = 1 THEN Returned(rows[1].name) ELSE ValueError

\* Python's min(rows, key=point.distance): the first row at least distance.
RECURSIVE min_by_distance(_, _)
min_by_distance(rows, x) ==
    IF Len(rows) = 1 THEN rows[1]
    ELSE LET m == min_by_distance(Tail(rows), x)
         IN  IF distance(Head(rows), x) <= distance(m, x) THEN Head(rows) ELSE m

\* Variant that answers with an empty identifier when no row is left.
nearest_or_default(gdf_co, x) ==
    IF gdf_co = <<>> THEN Returned(<<>>)
    ELSE item(SelectSeq(gdf_co,
                   LAMBDA p : same_geometry(p, min_by_distance(gdf_co, x))))

\* The except branch: the rows whose geometry equals the closest one.
\* min() of an empty sequence raises ValueError.
nearest(gdf_co, x) ==
    IF gdf_co = <<>> THEN ValueError
    ELSE item(SelectSeq(gdf_co,
                   LAMBDA p : same_geometry(p, min_by_distance(gdf_co, x))))

\* gdf[gdf[col].str.contains(co)] with col = "name"
filter_country(layer, country) ==
    SelectSeq(layer, LAMBDA p : str_contains(p.name, country))

\* locate_bus(coords, co, gadm_level, path_to_gadm) with gadm_clustering
\* False: the layer is the file's content and the identifier column is "name".
locate_bus(layer, country, x) ==
    LET gdf_co == filter_country(layer, country)
        exact == item(SelectSeq(gdf_co, LAMBDA p : contains(p, x)))
    IN  IF exact.kind = "return" THEN exact ELSE nearest(gdf_co, x)

\* Inputs of the locator.
Coordinates == 0..3
PolygonNames == {<<"M", "A", ".", "1">>, <<"M", "A", ".", "2">>, <<"D", "Z", ".", "1">>}
Polygons == {p \in [name : PolygonNames, lo : Coordinates, hi : Coordinates] : p.lo < p.hi}
Countries == {<<"M", "A">>, <<"D", "Z">>, <<"N", "G">>}

(***************************************************************************)
(* File readers (read_csv_nafix, read_geojson).  A file is absent, has no   *)
(* byte, is a table the library reader can parse (a CSV file of one column *)
(* "name", or a GeoJSON collection of named features), or has bytes that   *)
(* the reader cannot parse.                                                *)
(***************************************************************************)
Raised(error) == [kind |-> error, value |-> <<>>]

Absent == [kind |-> "absent", cells |-> <<>>]
ZeroByte == [kind |-> "empty", cells |-> <<>>]
Garbage == [kind |-> "garbage", cells |-> <<>>]

\* The module constant NA_VALUES, and the strings pandas reads as missing
\* by default, as far as the cells of the model go.
NA_VALUES == {"NULL", ""}
PandasDefaultNA == {"NULL", "", "NA"}

\* os.stat(file).st_size / os.path.getsize(fn): the header line and the
\* cells (each with its line end) of a table, some bytes of garbage.
getsize(f) ==
    IF f.kind = "empty" THEN 0
    ELSE IF f.kind = "garbage" THEN 1
    ELSE Len("name") + 1 + SumSeq([i \in DOMAIN f.cells |-> Len(f.cells[i]) + 1])

NaN == "<NaN>"

\* pd.read_csv(file, **kwargs): a line without any character is skipped
\* (skip_blank_lines is True by default), the cells that are in the
\* missing-value strings become NaN; bytes that are no table raise.
pd_read_csv(f, kwargs) ==
    IF f.kind = "csv"
    THEN LET na == (IF kwargs.keep_default_na THEN PandasDefaultNA ELSE {})
                      \cup kwargs.na_values
             cells == SelectSeq(f.cells, LAMBDA c : c # "")
         IN  Returned([type |-> "DataFrame",
                       columns |-> <<"name">>,
                       rows |-> [i \in DOMAIN cells |->
                                   IF cells[i] \in na THEN NaN
                                   ELSE cells[i]]])
    ELSE IF f.kind = "empty" THEN Raised("EmptyDataError")
    ELSE Raised("ParserError")

\* pd.DataFrame()
EmptyDataFrame == [type |-> "DataFrame", columns |-> <<>>, rows |-> <<>>]

\* Variant that catches the error of the reader and returns the empty frame.
read_csv_nafix_catching(f, kwargs) ==
    LET kw == [keep_default_na |-> IF "keep_default_na" \in kwargs.given
                                   THEN kwargs.keep_default_na ELSE FALSE,
               na_values |-> IF "na_values" \in kwargs.given
                             THEN kwargs.na_values ELSE NA_VALUES]
    IN  IF f.kind = "absent" THEN Raised("FileNotFoundError")
        ELSE IF getsize(f) > 0 /\ pd_read_csv(f, kw).kind = "return"
        THEN pd_read_csv(f, kw)
        ELSE Returned(EmptyDataFrame)

\* read_csv_nafix(file, **kwargs); kwargs.given holds the keys the caller
\* passed.
read_csv_nafix(f, kwargs) ==
    LET kw == [keep_default_na |-> IF "keep_default_na" \in kwargs.given
                                   THEN kwargs.keep_default_na ELSE FALSE,
               na_values |-> IF "na_values" \in kwargs.given
                             THEN kwargs.na_values ELSE NA_VALUES]
    IN  IF f.kind = "absent" THEN Raised("FileNotFoundError")
        ELSE IF getsize(f) > 0 THEN pd_read_csv(f, kw)
        ELSE Returned(EmptyDataFrame)

\* gpd.read_file(fn): the features of a GeoJSON collection, in the CRS of
\* GeoJSON; other bytes raise.
gpd_read_file(f) ==
    IF f.kind = "geojson"
    THEN Returned([type |-> "GeoDataFrame",
                   columns |-> <<"name", "geometry">>,
                   dtypes |-> {},
                   crs |-> "EPSG:4326",
                   rows |-> f.cells])
    ELSE Raised("DriverError")

\* gpd.GeoDataFrame(columns=cols, geometry=[], crs=crs): the columns and
\* the geometry column.
EmptyGeoDataFrame(cols, crs) ==
    [type |-> "GeoDataFrame",
     columns |-> IF "geometry" \in Range(cols) THEN cols
                 ELSE Append(cols, "geometry"),
     dtypes |-> {},
     crs |-> crs,
     rows |-> <<>>]

\* read_geojson(fn, cols, dtype, crs); dtype is the set of its
\* <<column, type>> items (None has none).  df[k] of a column that the
\* frame does not have raises KeyError.
read_geojson(f, cols, dtype, crs) ==
    IF f.kind = "absent" THEN Raised("FileNotFoundError")
    ELSE IF getsize(f) > 0 THEN gpd_read_file(f)
    ELSE LET df == EmptyGeoDataFrame(cols, crs)
         IN  IF \E kv \in dtype : kv[1] \notin Range(df.columns)
             THEN Raised("KeyError")
             ELSE Returned([df EXCEPT !.dtypes = dtype])

\* Inputs of the file readers.
Cells == {"NA", "", "ZA"}
Files ==
    {ZeroByte, Garbage}
       \cup {[kind |-> k, cells |-> c] :
                k \in {"csv", "geojson"}, c \in SeqsUpTo(Cells, MaxCells)}
Kwargs ==
    [given : SUBSET {"keep_default_na", "na_values"},
     keep_default_na : BOOLEAN, na_values : {{}, {"ZA"}}]
Cols == {<<>>, <<"name">>, <<"geometry", "name">>}
DTypes == {{}, {<<"name", "str">>}, {<<"x", "float">>}}
CRSs == {"EPSG:4326", "EPSG:3857"}
NoReadCall == [reader |-> "none"]

(***************************************************************************)
(* GADM download (download_gadm) and layer selection (get_gadm_layer).      *)
(***************************************************************************)
\* f"gadm36_{two_2_three_digits_country(country_code)}"
gadm_filename(country_code) ==
    "gadm36_" \o two_2_three_digits_country(country_code).out

\* gadm_input_file_gpkg, below the working directory.
gadm_input_file_gpkg(country_code) ==
    "data/raw/gadm/" \o gadm_filename(country_code) \o "/"
        \o gadm_filename(country_code) \o ".gpkg"

\* The archives the server has, and the layers of each gpkg file
\* (fiona.listlayers).
GadmCountries == {"NG", "ZA", "XX"}
RemoteArchives == {gadm_filename("NG"), gadm_filename("ZA")}
GadmNames == {gadm_filename(c) : c \in GadmCountries}
listlayers(country_code) ==
    IF country_code = "NG"
    THEN <<"gadm36_NGA_0", "gadm36_NGA_1", "gadm36_NGA_2">>
    ELSE <<"gadm36_ZAF_0", "gadm36_ZAF_1">>

\* What the fetch of an archive can end in: the archive is stored and
\* extracted, the connection fails, or what the server sent is no zip
\* archive.
FetchOutcomes(name) ==
    IF name \in RemoteArchives THEN {"ok", "ConnectionError"}
    ELSE {"BadZipFile", "ConnectionError"}

\* Variant that fetches on every call.
download_gadm_always(files, made, country_code, update, fetch) ==
    IF fetch = "ok"
    THEN [files |-> [files EXCEPT ![gadm_filename(country_code)] = made + 1],
          downloads |-> made + 1, fetched |-> TRUE,
          out |-> Returned(<<gadm_input_file_gpkg(country_code),
                             gadm_filename(country_code)>>)]
    ELSE [files |-> files, downloads |-> made + 1, fetched |-> TRUE,
          out |-> Raised(fetch)]

\* download_gadm(country_code, update) on the files `files` after `made`
\* requests, when a fetch ends in `fetch`.
download_gadm(files, made, country_code, update, fetch) ==
    IF files[gadm_filename(country_code)] = 0 \/ update = TRUE
    THEN IF fetch = "ok"
         THEN [files |-> [files EXCEPT ![gadm_filename(country_code)] = made + 1],
               downloads |-> made + 1, fetched |-> TRUE,
               out |-> Returned(<<gadm_input_file_gpkg(country_code),
                                  gadm_filename(country_code)>>)]
         ELSE [files |-> files, downloads |-> made + 1, fetched |-> TRUE,
               out |-> Raised(fetch)]
    ELSE [files |-> files, downloads |-> made, fetched |-> FALSE,
          out |-> Returned(<<gadm_input_file_gpkg(country_code),
                             gadm_filename(country_code)>>)]

\* Python's 0 | layer_id on integers.
bit_or_zero(layer_id) == layer_id

\* The test `layer_id < 0 | layer_id >= len(list_layers)`: | binds tighter
\* than the comparisons, which then form a chain.
out_of_range(layer_id, list_layers) ==
    /\ layer_id < bit_or_zero(layer_id)
    /\ bit_or_zero(layer_id) >= Len(list_layers)

\* str.upper on the 3-letter codes (upper case already) and "not found".
upper(s) == IF s = NotFound THEN "NOT FOUND" ELSE s

\* get_gadm_layer(country_list, layer_id, update): the first country is
\* downloaded and its layer read; pd.concat of the list [] and the frame
\* raises TypeError, and pd.concat of no object (empty country_list) raises
\* ValueError.
get_gadm_layer(files, made, country_list, layer_id, update, fetch) ==
    IF country_list = <<>>
    THEN [files |-> files, downloads |-> made, fetched |-> FALSE,
          reads |-> <<>>, out |-> Raised("ValueError")]
    ELSE LET country_code == Head(country_list)
             d == download_gadm(files, made, country_code, update, fetch)
             list_layers == listlayers(country_code)
             layer == IF out_of_range(layer_id, list_layers)
                      THEN Len(list_layers) - 1 ELSE layer_id
             code_layer == layer % Len(list_layers)
             layer_name ==
                 "gadm36_" \o upper(two_2_three_digits_country(country_code).out)
                    \o "_" \o ToString(code_layer)
         IN  IF d.out.kind # "return"
             THEN [files |-> d.files, downloads |-> d.downloads,
                   fetched |-> d.fetched, reads |-> <<>>, out |-> d.out]
             ELSE [files |-> d.files, downloads |-> d.downloads,
                   fetched |-> d.fetched,
                   reads |-> <<[file |-> d.out.value[1], layer |-> layer_name,
                                code_layer |-> code_layer]>>,
                   out |-> Raised("TypeError")]

\* Inputs of the GADM functions.
LayerIds == -2..4
NoGadmCall == [function |-> "none"]

(***************************************************************************)
(* Cost aggregation (aggregate_costs).  An asset is one row of a component  *)
(* table with the sum of its dispatch series; a Series is a function from  *)
(* its index to its values.                                                *)
(***************************************************************************)
components_dict ==
    << [name |-> "Link", list_name |-> "links", p_attr |-> "p0"],
       [name |-> "Generator", list_name |-> "generators", p_attr |-> "p"],
       [name |-> "StorageUnit", list_name |-> "storage_units", p_attr |-> "p"],
       [name |-> "Store", list_name |-> "stores", p_attr |-> "p"],
       [name |-> "Line", list_name |-> "lines", p_attr |-> "None"],
       [name |-> "Transformer", list_name |-> "transformers", p_attr |-> "None"] >>

\* c.df: the rows of one component.
component_df(n, c) == SelectSeq(n, LAMBDA a : a.component = c.name)

\* c.df[p_nom] * c.df.capital_cost, with p_nom += "_opt" unless existing_only.
capital_of(a, existing_only) ==
    (IF existing_only THEN a.p_nom ELSE a.p_nom_opt) * a.capital_cost

\* p * c.df.marginal_cost with p = c.pnl[p_attr].sum(); for a StorageUnit
\* only p > 0 is kept, and the sum of the group skips the missing product.
marginal_of(a, c) ==
    IF c.name = "StorageUnit" /\ ~(a.p > 0) THEN 0
    ELSE a.p * a.marginal_cost

\* series.groupby(c.df.carrier).sum() as the sum for one carrier.
group_sum(df, carrier, values) ==
    SumSeq([i \in DOMAIN df |->
               IF df[i].carrier = carrier THEN values[i] ELSE 0])

df_carriers(df) == {df[i].carrier : i \in DOMAIN df}

\* pd.concat(costs): the Series indexed by (list_name, kind, carrier).
concat_costs(n, existing_only) ==
    LET used == {i \in DOMAIN components_dict :
                    component_df(n, components_dict[i]) # <<>>}
        index ==
            UNION {{<<components_dict[i].list_name, kind, k>> :
                      k \in df_carriers(component_df(n, components_dict[i])),
                      kind \in IF components_dict[i].p_attr = "None"
                               THEN {"capital"}
                               ELSE {"capital", "marginal"}} : i \in used}
        comp(list_name) ==
            components_dict[CHOOSE i \in used :
                               components_dict[i].list_name = list_name]
        df(list_name) == component_df(n, comp(list_name))
    IN  [ix \in index |->
            IF ix[2] = "capital"
            THEN group_sum(df(ix[1]), ix[3],
                           [i \in DOMAIN df(ix[1]) |->
                               capital_of(df(ix[1])[i], existing_only)])
            ELSE group_sum(df(ix[1]), ix[3],
                           [i \in DOMAIN df(ix[1]) |->
                               marginal_of(df(ix[1])[i], comp(ix[1]))])]

\* Variant that renames every carrier of the marginal costs.
rename_every_carrier(carrier, conv_techs) == carrier \o " marginal"

\* .rename({t: t + " marginal" for t in conv_techs}) on one label.
rename_conv_techs(carrier, conv_techs) ==
    IF carrier \in conv_techs THEN carrier \o " marginal" ELSE carrier

\* The labels of the model in the order in which Python sorts strings.
LabelOrder ==
    <<"AC", "OCGT", "OCGT marginal", "battery", "battery marginal", "solar",
      "solar marginal">>

\* sorted(labels): groupby sorts the carriers of a component, and an outer
\* join of two indexes sorts the labels of the result.
sort_values(labels) == SelectSeq(LabelOrder, LAMBDA l : l \in labels)

\* costs[kind] after reset_index(level=0, drop=True): a Series as the
\* sequence of its entries [label, value].  The entries keep the order of
\* the concatenation (component by component, the carriers of a component
\* sorted), and the label of a carrier occurs once for every component
\* that has the carrier.
kind_series(costs, kind) ==
    Flatten([i \in DOMAIN components_dict |->
        LET list_name == components_dict[i].list_name
            carriers == sort_values({ix[3] : ix \in {jx \in DOMAIN costs :
                                        jx[1] = list_name /\ jx[2] = kind}})
        IN  [j \in DOMAIN carriers |->
                [label |-> carriers[j],
                 value |-> costs[<<list_name, kind, carriers[j]>>]]]])

\* series.rename({t: t + " marginal" for t in conv_techs})
rename_series(series, conv_techs) ==
    [i \in DOMAIN series |->
        [label |-> rename_conv_techs(series[i].label, conv_techs),
         value |-> series[i].value]]

\* series.index
series_index(series) == [i \in DOMAIN series |-> series[i].label]

\* left.add(right, fill_value=0.0).  With equal indexes the values are added
\* position by position.  Otherwise the two Series are aligned by an outer
\* join of their indexes: the labels of the result are sorted, a label of
\* one side only keeps its entries (the missing value is filled with 0.0),
\* and a label of both sides gets one entry for every pair of an entry of
\* the left and an entry of the right side.
series_add(left, right) ==
    IF series_index(left) = series_index(right)
    THEN [i \in DOMAIN left |->
             [label |-> left[i].label, value |-> left[i].value + right[i].value]]
    ELSE LET labels == sort_values(Range(series_index(left))
                                      \cup Range(series_index(right)))
             of(series, l) == SelectSeq(series, LAMBDA e : e.label = l)
             pairs(l) ==
                 LET ls == of(left, l)
                     rs == of(right, l)
                 IN  IF rs = <<>> THEN ls
                     ELSE IF ls = <<>> THEN rs
                     ELSE Flatten([i \in DOMAIN ls |->
                              [j \in DOMAIN rs |->
                                  [label |-> l,
                                   value |-> ls[i].value + rs[j].value]]])
         IN  Flatten([i \in DOMAIN labels |-> pairs(labels[i])])

\* aggregate_costs(n, flatten, opts, existing_only); opts.given is FALSE
\* for opts=None.
aggregate_costs(n, flatten, opts, existing_only) ==
    IF n = <<>> THEN Raised("ValueError")
    ELSE LET costs == concat_costs(n, existing_only)
         IN  IF ~flatten THEN Returned(costs)
             ELSE IF ~opts.given THEN Raised("AssertionError")
             ELSE IF \A ix \in DOMAIN costs : ix[2] # "marginal"
             THEN Raised("KeyError")
             ELSE Returned(series_add(
                      kind_series(costs, "capital"),
                      rename_series(kind_series(costs, "marginal"),
                                    opts.conv_techs)))

\* Inputs of aggregate_costs.
ComponentCarriers ==
    {<<"Generator", "OCGT">>, <<"Generator", "solar">>,
     <<"StorageUnit", "battery">>, <<"Store", "battery">>, <<"Line", "AC">>}
Assets ==
    {[component |-> cc[1], carrier |-> cc[2], p_nom |-> 1, p_nom_opt |-> 2,
      capital_cost |-> IF cc[1] = "Store" THEN 7 ELSE 5,
      p |-> p, marginal_cost |-> 2] :
        cc \in ComponentCarriers, p \in {-1, 3}}
Opts ==
    {[given |-> FALSE, conv_techs |-> {}],
     [given |-> TRUE, conv_techs |-> {"OCGT"}],
     [given |-> TRUE, conv_techs |-> {"OCGT", "battery"}]}
NoCostsCall == [flatten |-> FALSE, opts |-> [given |-> FALSE, conv_techs |-> {}],
                existing_only |-> FALSE]

(***************************************************************************)
(* Cyclic shift (cycling_shift).  A Series or DataFrame is its index (the   *)
(* labels), its values by position, and the number of blocks that hold the *)
(* values: 1 for a Series or a frame of one dtype, 2 for a frame with      *)
(* columns of two dtypes.                                                  *)
(***************************************************************************)
\* np.roll(a, shift): the element at position i moves to position
\* (i + shift) mod len(a).
np_roll(a, shift) ==
    [i \in DOMAIN a |-> a[((i - 1 - shift) % Len(a)) + 1]]

\* df.reindex(index=new_index).values: the values looked up by label.  An
\* index equal to the new one needs no lookup; otherwise the lookup needs
\* unique labels and raises ValueError on an index with a repeated label.
reindex_values(df, new_index) ==
    IF new_index = df.index THEN Returned(df.values)
    ELSE IF \E i, j \in DOMAIN df.index : i # j /\ df.index[i] = df.index[j]
    THEN ValueError
    ELSE Returned([i \in DOMAIN new_index |->
                     df.values[CHOOSE j \in DOMAIN df.index :
                                  df.index[j] = new_index[i]]])

\* cycling_shift(df, steps): `df` is the caller's object after the call,
\* `out` the outcome.  df.values of the copy is the array of the single
\* block, so the assignment writes into the copy; with two blocks df.values
\* is a new array and the assignment is lost.
cycling_shift(df, steps) ==
    LET copy == df
        new_index == np_roll(copy.index, steps)
        reindexed == reindex_values(copy, new_index)
    IN  [df |-> df,
         out |-> IF reindexed.kind # "return" THEN reindexed
                 ELSE IF copy.blocks = 1
                 THEN Returned([copy EXCEPT !.values = reindexed.value])
                 ELSE Returned(copy)]

\* Inputs of cycling_shift.
Labels == {"a", "b", "c"}
Values == {0, 1}
Blocks == {1, 2}
Steps == -4..4
EmptyFrame == [index |-> <<>>, values |-> <<>>, blocks |-> 1]
NoShiftCall == [df |-> EmptyFrame, steps |-> 1]

(***************************************************************************)
(* build_cutout.  Coordinates and grid steps are in hundredths of a        *)
(* degree; a geometry is its box <<minx, miny, maxx, maxy>>; a dict is a    *)
(* function from its keys.                                                 *)
(***************************************************************************)
None == "None"

\* slice(*v)
slice(v) ==
    IF Len(v) = 1 THEN [start |-> None, stop |-> v[1], step |-> None]
    ELSE IF Len(v) = 2 THEN [start |-> v[1], stop |-> v[2], step |-> None]
    ELSE [start |-> v[1], stop |-> v[2], step |-> v[3]]

\* dict.get(key, default)
get(d, key, default) == IF key \in DOMAIN d THEN d[key] ELSE default

\* d[key] = value
set_item(d, key, value) ==
    [k \in DOMAIN d \cup {key} |-> IF k = key THEN value ELSE d[k]]

\* d without key (after d.pop(key, None))
without(d, key) == [k \in DOMAIN d \ {key} |-> d[k]]

Min(S) == CHOOSE x \in S : \A y \in S : x <= y
Max(S) == CHOOSE x \in S : \A y \in S : x >= y

\* regions.total_bounds of at least one geometry.
total_bounds(regions) ==
    <<Min({regions[i][1] : i \in DOMAIN regions}),
      Min({regions[i][2] : i \in DOMAIN regions}),
      Max({regions[i][3] : i \in DOMAIN regions}),
      Max({regions[i][4] : i \in DOMAIN regions})>>

\* numpy addition of an array and a list, element by element.
array_add(a, b) == [i \in DOMAIN a |-> a[i] + b[i]]

\* regions.total_bounds + [-d, -d, d, d]; the total bounds of no geometry
\* are NaN four times, and so is the sum.
enlarged_bounds(regions, d) ==
    IF regions = <<>> THEN <<NaN, NaN, NaN, NaN>>
    ELSE array_add(total_bounds(regions), <<-d, -d, d, d>>)

\* The default of dx and dy, 0.25 degrees.
DefaultStep == 25

\* Variant with a buffer of one grid cell.
buffer_one_cell(params) ==
    Max({get(params, "dx", DefaultStep), get(params, "dy", DefaultStep)})

\* d = max(cutout_params.get("dx", 0.25), cutout_params.get("dy", 0.25)) * 2
buffer(params) ==
    Max({get(params, "dx", DefaultStep), get(params, "dy", DefaultStep)}) * 2

\* The first and last snapshot of snakemake.params.snapshots.
snapshots_time == <<"2013-01-01 00:00", "2013-12-31 23:00">>

\* The body of __main__ from the cutout parameters on: the parameters
\* as they are after it, and what atlite is given.
build_cutout(params, onshore_shapes, offshore_shapes) ==
    LET timed == set_item(params, "time",
                          slice(get(params, "time", snapshots_time)))
        regions == onshore_shapes \o offshore_shapes
        d == buffer(timed)
        bounded ==
            IF {"x", "y", "bounds"} \cap DOMAIN timed = {}
            THEN set_item(timed, "bounds", enlarged_bounds(regions, d))
            ELSE IF {"x", "y"} \subseteq DOMAIN timed
            THEN set_item(set_item(timed, "x", slice(timed["x"])),
                          "y", slice(timed["y"]))
            ELSE timed
    IN  [cutout_params |-> without(bounded, "features"),
         prepared |-> [cutout |-> without(bounded, "features"),
                       features |-> get(bounded, "features", None)]]

\* Inputs of build_cutout.
ParamValues ==
    [x |-> {<<-1200, 3500>>}, y |-> {<<0, 1000>>},
     bounds |-> {<<0, 0, 100, 100>>}, dx |-> {50}, dy |-> {10},
     time |-> {<<"2013-03-01", "2013-03-07">>}, features |-> {<<"wind">>}]
Boxes == {<<0, 0, 200, 100>>, <<-100, 50, 100, 300>>}
NoParams == [k \in {} |-> None]
NotPrepared == [cutout |-> NoParams, features |-> None]

(***************************************************************************)
(* The process working directory: get_last_commit_message and              *)
(* sets_path_to_root.  A directory is the sequence of its folder names     *)
(* from "/" downwards; "/" itself is the empty sequence.                   *)
(***************************************************************************)
Folders == {"pypsa", "scripts"}
Dirs == SeqsUpTo(Folders, MaxDepth)
Missing == <<"missing">>
Paths == Dirs \cup {Missing}

\* os.path.basename(os.path.abspath(".")): "" for "/".
basename(wd) == IF wd = <<>> THEN "" ELSE wd[Len(wd)]

\* os.path.dirname(os.path.abspath(".")): "/" for "/".
dirname(wd) == IF wd = <<>> THEN <<>> ELSE SubSeq(wd, 1, Len(wd) - 1)

\* os.chdir(path): the working directory after it, or the error it raises.
chdir(wd, path) ==
    IF path \in Dirs THEN Returned(path) ELSE Raised("FileNotFoundError")

Whitespace == {" ", "\t", "\n"}

\* str.strip()
RECURSIVE lstrip(_)
lstrip(s) ==
    IF s # <<>> /\ Head(s) \in Whitespace THEN lstrip(Tail(s)) ELSE s

RECURSIVE rstrip(_)
rstrip(s) ==
    IF s # <<>> /\ s[Len(s)] \in Whitespace
    THEN rstrip(SubSeq(s, 1, Len(s) - 1)) ELSE s

strip(s) == rstrip(lstrip(s))

\* What running git can do: print the commit, print bytes that are not
\* UTF-8, exit with an error, or not start at all.
GitOutcomes == {"output", "undecodable", "CalledProcessError", "FileNotFoundError"}

GitOutput == <<"c", "0", " ", "f", "i", "x", "\n">>

\* subprocess.check_output([...]).decode()
check_output_decode(git) ==
    CASE git = "output" -> Returned(GitOutput)
      [] git = "undecodable" -> Raised("UnicodeDecodeError")
      [] OTHER -> Raised(git)

\* Variant with the restoring chdir in a finally clause.
get_last_commit_message_finally(wd, path, git) ==
    LET backup_cwd == wd
        there == chdir(wd, path)
        r == check_output_decode(git)
    IN  IF there.kind # "return"
        THEN [cwd |-> backup_cwd, warning |-> FALSE, out |-> there]
        ELSE IF r.kind = "return"
        THEN [cwd |-> backup_cwd, warning |-> FALSE, out |-> Returned(strip(r.value))]
        ELSE IF r.kind = "CalledProcessError"
        THEN [cwd |-> backup_cwd, warning |-> TRUE, out |-> Returned(None)]
        ELSE [cwd |-> backup_cwd, warning |-> FALSE, out |-> r]

\* get_last_commit_message(path), called in the working directory wd: the
\* working directory afterwards, whether a warning was logged, and what
\* is returned or raised.  Only CalledProcessError is caught.
get_last_commit_message(wd, path, git) ==
    LET backup_cwd == wd
        there == chdir(wd, path)
        r == check_output_decode(git)
    IN  IF there.kind # "return"
        THEN [cwd |-> wd, warning |-> FALSE, out |-> there]
        ELSE IF r.kind = "return"
        THEN [cwd |-> chdir(there.value, backup_cwd).value, warning |-> FALSE,
              out |-> Returned(strip(r.value))]
        ELSE IF r.kind = "CalledProcessError"
        THEN [cwd |-> chdir(there.value, backup_cwd).value, warning |-> TRUE,
              out |-> Returned(None)]
        ELSE [cwd |-> there.value, warning |-> FALSE, out |-> r]

NoCommitCall == [path |-> <<>>, git |-> "none", backup_cwd |-> <<>>]
NoCommitOut == [warning |-> FALSE, out |-> [kind |-> "none", value |-> <<>>]]

\* One pass through the body of the while loop of sets_path_to_root, entered
\* with n >= 0 in the working directory wd.
loop_body(wd, repo_name, n0, n, out) ==
    LET n1 == n - 1
    IN  IF repo_name = basename(wd)
        THEN [cwd |-> wd, n |-> n1, break |-> TRUE,
              printed |-> out \o
                  << [text |-> "This is the repository path: ", arg |-> wd],
                     [text |-> "Had to go %d folder(s) up.",
                      arg |-> <<n0 - 1 - n1>>] >>]
        ELSE IF n1 = 0
        THEN [cwd |-> wd, n |-> n1, break |-> FALSE,
              printed |-> Append(out, [text |-> "Can't find the repo path.",
                                       arg |-> <<>>])]
        ELSE [cwd |-> dirname(wd), n |-> n1, break |-> FALSE, printed |-> out]

RootNames == {"pypsa", "earth", ""}
Ns == -1..MaxN
NoRootCall == [root_directory_name |-> "", n |-> 0, start |-> <<>>]

(***************************************************************************)
(* The state machine.  A run exercises one of the components: the          *)
(* functions share no state, so an action of one component is taken only   *)
(* while the others are in their initial state.                            *)
(***************************************************************************)
Tokens == {"NG", "ZA", "Africa", "SAPP", "Earth"}

CodeInputs == ISO2Codes \cup {"SN-GM", "GM-SN", "XX", "SEN", "Senegal"}

NoWarning == [logged |-> FALSE, codes |-> {}]

\* Inputs of the name functions.
MaxWords == 2
NameCodes == {"CD", "SN", "SN-GM", "XX"}
NameStrings == {"name_short", "name_official"}
Words == {<<"T", "h", "e">>, <<" ">>, <<"D", "e", "m", "o", "c", "r", "a", "t", "i", "c">>,
          <<"t", "h", "e">>, <<"S", "e", "n">>}
NameInputs ==
    {<<"S", "e", "n", "e", "g", "a", "l">>, <<"D", "R", " ", "C", "o", "n", "g", "o">>,
     <<"R", "e", "p", "u", "b", "l", "i", "c", " ", "o", "f", " ", "T", "h", "e", " ", "G", "a", "m", "b", "i", "a">>,
     <<"S", "e", "n", "e", "g", "a", "l", "-", "G", "a", "m", "b", "i", "a">>,
     <<"G", "a", "m", "b", "i", "a", "-", "S", "e", "n", "e", "g", "a", "l">>,
     <<"N", "a", "r", "n", "i", "a">>}

\* The arguments of two_digits_2_name_country: nothing but the defaults.
NoNameCall ==
    [two_code_country |-> "", name_string |-> "name_short",
     no_comma |-> FALSE, remove_start_words |-> <<>>]

InitCountry ==
    /\ cpc = "idle"
    /\ code = ""
    /\ three_code = ""
    /\ two_code = ""
    /\ calls = <<>>
    /\ tokens = <<>>
    /\ iso_coding = TRUE
    /\ full_codes_list = <<>>
    /\ warning = NoWarning
    /\ name_call = NoNameCall
    /\ name_before = <<>>
    /\ name_out = <<>>
    /\ name_in = <<>>
    /\ name_code = ""

InitTopology ==
    /\ tpc = "idle"
    /\ lines = <<>>
    /\ links = <<>>
    /\ links_columns = LinkAttrs
    /\ bidirectional = TRUE
    /\ topo = <<>>

InitLocate ==
    /\ lpc = "idle"
    /\ gdf = <<>>
    /\ co = <<>>
    /\ point = 0
    /\ bus = [kind |-> "none", value |-> <<>>]

InitFiles ==
    /\ fpc = "idle"
    /\ file = Absent
    /\ read_call = NoReadCall
    /\ read_out = [kind |-> "none", value |-> <<>>]

InitGadm ==
    /\ gpc = "idle"
    /\ gadm_files = [name \in GadmNames |-> 0]
    /\ downloads = 0
    /\ gadm_call = NoGadmCall
    /\ gadm_reads = <<>>
    /\ gadm_out = [kind |-> "none", value |-> <<>>]

InitCosts ==
    /\ kpc = "idle"
    /\ network = <<>>
    /\ costs_call = NoCostsCall
    /\ costs_out = [kind |-> "none", value |-> <<>>]

InitShift ==
    /\ spc = "idle"
    /\ frame = EmptyFrame
    /\ shift_call = NoShiftCall
    /\ shift_out = [kind |-> "none", value |-> <<>>]

InitCutout ==
    /\ upc = "idle"
    /\ cutout_params = NoParams
    /\ onshore = <<>>
    /\ offshore = <<>>
    /\ given = NoParams
    /\ prepared = NotPrepared

InitWorkdir ==
    /\ wpc = "idle"
    /\ cwd = <<>>
    /\ commit_call = NoCommitCall
    /\ commit_out = NoCommitOut
    /\ root_call = NoRootCall
    /\ loop_n = 0
    /\ printed = <<>>

Init ==
    /\ InitCountry /\ InitTopology /\ InitLocate /\ InitFiles /\ InitGadm
    /\ InitCosts /\ InitShift /\ InitCutout /\ InitWorkdir

\* The functions are independent of each other: a call of one group is
\* followed from the state in which the other groups have not been used.
OthersIdleCountry ==
    InitTopology /\ InitLocate /\ InitFiles
    /\ InitGadm /\ InitCosts /\ InitShift /\ InitCutout
    /\ InitWorkdir
OthersIdleTopology ==
    InitCountry /\ InitLocate /\ InitFiles
    /\ InitGadm /\ InitCosts /\ InitShift /\ InitCutout
    /\ InitWorkdir
OthersIdleLocate ==
    InitCountry /\ InitTopology /\ InitFiles
    /\ InitGadm /\ InitCosts /\ InitShift /\ InitCutout
    /\ InitWorkdir
OthersIdleFiles ==
    InitCountry /\ InitTopology /\ InitLocate
    /\ InitGadm /\ InitCosts /\ InitShift /\ InitCutout
    /\ InitWorkdir
OthersIdleGadm ==
    InitCountry /\ InitTopology /\ InitLocate /\ InitFiles
    /\ InitCosts /\ InitShift /\ InitCutout
    /\ InitWorkdir
OthersIdleCosts ==
    InitCountry /\ InitTopology /\ InitLocate /\ InitFiles
    /\ InitGadm /\ InitShift /\ InitCutout
    /\ InitWorkdir
OthersIdleShift ==
    InitCountry /\ InitTopology /\ InitLocate /\ InitFiles
    /\ InitGadm /\ InitCosts /\ InitCutout
    /\ InitWorkdir
OthersIdleCutout ==
    InitCountry /\ InitTopology /\ InitLocate /\ InitFiles
    /\ InitGadm /\ InitCosts /\ InitShift
    /\ InitWorkdir
OthersIdleWorkdir ==
    InitCountry /\ InitTopology /\ InitLocate /\ InitFiles
    /\ InitGadm /\ InitCosts /\ InitShift /\ InitCutout

others_country ==
    <<topology_vars, locate_vars, files_vars, gadm_vars, costs_vars,
      shift_vars, cutout_vars,
      workdir_vars>>
others_topology ==
    <<country_vars, locate_vars, files_vars, gadm_vars, costs_vars,
      shift_vars, cutout_vars,
      workdir_vars>>
others_locate ==
    <<country_vars, topology_vars, files_vars, gadm_vars, costs_vars,
      shift_vars, cutout_vars,
      workdir_vars>>
others_files ==
    <<country_vars, topology_vars, locate_vars, gadm_vars, costs_vars,
      shift_vars, cutout_vars,
      workdir_vars>>
others_gadm ==
    <<country_vars, topology_vars, locate_vars, files_vars, costs_vars,
      shift_vars, cutout_vars,
      workdir_vars>>
others_costs ==
    <<country_vars, topology_vars, locate_vars, files_vars, gadm_vars,
      shift_vars, cutout_vars,
      workdir_vars>>
others_shift ==
    <<country_vars, topology_vars, locate_vars, files_vars, gadm_vars,
      costs_vars, cutout_vars,
      workdir_vars>>
others_cutout ==
    <<country_vars, topology_vars, locate_vars, files_vars, gadm_vars,
      costs_vars, shift_vars,
      workdir_vars>>
others_workdir ==
    <<country_vars, topology_vars, locate_vars, files_vars, gadm_vars,
      costs_vars, shift_vars, cutout_vars>>

Call_two_2_three_digits_country(c) ==
    /\ OthersIdleCountry
    /\ cpc = "idle"
    /\ tokens = <<>>
    /\ LET r == two_2_three_digits_country(c)
       IN  /\ code' = c
           /\ three_code' = r.out
           /\ calls' = r.calls
    /\ cpc' = "three"
    /\ UNCHANGED <<two_code, tokens, iso_coding, full_codes_list, warning>>
    /\ UNCHANGED name_vars
    /\ UNCHANGED others_country

Call_three_2_two_digits_country ==
    /\ OthersIdleCountry
    /\ cpc = "three"
    /\ LET r == three_2_two_digits_country(three_code)
       IN  /\ two_code' = r.out
           /\ calls' = calls \o r.calls
    /\ cpc' = "two"
    /\ UNCHANGED <<code, three_code, tokens, iso_coding, full_codes_list, warning>>
    /\ UNCHANGED name_vars
    /\ UNCHANGED others_country

AddToken(value1) ==
    /\ OthersIdleCountry
    /\ cpc = "idle"
    /\ code = ""
    /\ Len(tokens) < MaxTokens
    /\ tokens' = Append(tokens, value1)
    /\ UNCHANGED <<cpc, code, three_code, two_code, calls, iso_coding,
                   full_codes_list, warning>>
    /\ UNCHANGED name_vars
    /\ UNCHANGED others_country

Call_create_country_list(iso) ==
    /\ OthersIdleCountry
    /\ cpc = "idle"
    /\ \E r \in create_country_list(tokens, iso) :
          /\ full_codes_list' = r.ret
          /\ warning' = r.warning
    /\ iso_coding' = iso
    /\ cpc' = "list"
    /\ UNCHANGED <<code, three_code, two_code, calls, tokens>>
    /\ UNCHANGED name_vars
    /\ UNCHANGED others_country

ReturnCountry ==
    /\ OthersIdleCountry
    /\ cpc \in {"two", "list", "name", "namecode"}
    /\ cpc' = "idle"
    /\ code' = ""
    /\ three_code' = ""
    /\ two_code' = ""
    /\ calls' = <<>>
    /\ iso_coding' = TRUE
    /\ full_codes_list' = <<>>
    /\ warning' = NoWarning
    /\ name_call' = NoNameCall
    /\ name_before' = <<>>
    /\ name_out' = <<>>
    /\ name_in' = <<>>
    /\ name_code' = ""
    /\ UNCHANGED tokens
    /\ UNCHANGED others_country

AddLine(row) ==
    /\ OthersIdleTopology
    /\ tpc = "idle"
    /\ Len(lines) + Len(links) < MaxRows
    /\ lines' = Append(lines, row)
    /\ UNCHANGED <<tpc, links, links_columns, bidirectional, topo>>
    /\ UNCHANGED others_topology

AddLink(row) ==
    /\ OthersIdleTopology
    /\ tpc = "idle"
    /\ Len(lines) + Len(links) < MaxRows
    /\ links' = Append(links, [c \in links_columns |-> row[c]])
    /\ UNCHANGED <<tpc, lines, links_columns, bidirectional, topo>>
    /\ UNCHANGED others_topology

\* The workflow gives the link table its column "underwater_fraction".
AddUnderwaterFraction(value) ==
    /\ OthersIdleTopology
    /\ tpc = "idle"
    /\ "underwater_fraction" \notin links_columns
    /\ links_columns' = links_columns \cup {"underwater_fraction"}
    /\ links' = [i \in DOMAIN links |->
                    [bus0 |-> links[i].bus0, bus1 |-> links[i].bus1,
                     length |-> links[i].length, carrier |-> links[i].carrier,
                     underwater_fraction |-> value]]
    /\ UNCHANGED <<tpc, lines, bidirectional, topo>>
    /\ UNCHANGED others_topology

Call_create_network_topology(bidir) ==
    /\ OthersIdleTopology
    /\ tpc = "idle"
    /\ LET r == create_network_topology(lines, links, Prefix, Connector, bidir)
       IN  /\ topo' = r.value
           /\ tpc' = IF r.kind = "return" THEN "done" ELSE "raised"
    /\ bidirectional' = bidir
    /\ links' = set_underwater_fraction(links)
    /\ links_columns' = columns_with_underwater_fraction(links_columns)
    /\ UNCHANGED lines
    /\ UNCHANGED others_topology

\* The script that called the builder ends; the next run loads its network
\* anew.
ReturnTopology ==
    /\ OthersIdleTopology
    /\ tpc \in {"done", "raised"}
    /\ tpc' = "idle"
    /\ topo' = <<>>
    /\ bidirectional' = TRUE
    /\ lines' = <<>>
    /\ links' = <<>>
    /\ links_columns' = LinkAttrs
    /\ UNCHANGED others_topology

AddPolygon(poly) ==
    /\ OthersIdleLocate
    /\ lpc = "idle"
    /\ Len(gdf) < MaxPolygons
    /\ \A i \in DOMAIN gdf : gdf[i].name # poly.name
    /\ gdf' = Append(gdf, poly)
    /\ UNCHANGED <<lpc, co, point, bus>>
    /\ UNCHANGED others_locate

Call_locate_bus(country, x) ==
    /\ OthersIdleLocate
    /\ lpc = "idle"
    /\ bus' = locate_bus(gdf, country, x)
    /\ co' = country
    /\ point' = x
    /\ lpc' = "done"
    /\ UNCHANGED gdf
    /\ UNCHANGED others_locate

ReturnLocate ==
    /\ OthersIdleLocate
    /\ lpc = "done"
    /\ lpc' = "idle"
    /\ co' = <<>>
    /\ point' = 0
    /\ bus' = [kind |-> "none", value |-> <<>>]
    /\ UNCHANGED gdf
    /\ UNCHANGED others_locate

Call_two_digits_2_name_country ==
    /\ OthersIdleCountry
    /\ cpc = "idle"
    /\ tokens = <<>>
    /\ \E c \in NameCodes, name_string \in NameStrings, no_comma \in BOOLEAN,
          remove_start_words \in SeqsUpTo(Words, MaxWords) :
          LET r == two_digits_2_name_country(c, name_string, no_comma,
                                             remove_start_words)
          IN  /\ name_call' = [two_code_country |-> c,
                               name_string |-> name_string,
                               no_comma |-> no_comma,
                               remove_start_words |-> remove_start_words]
              /\ name_before' = r.before
              /\ name_out' = r.out
    /\ cpc' = "name"
    /\ UNCHANGED <<code, three_code, two_code, calls, tokens, iso_coding,
                   full_codes_list, warning, name_in, name_code>>
    /\ UNCHANGED others_country

Call_country_name_2_two_digits ==
    /\ OthersIdleCountry
    /\ cpc = "idle"
    /\ tokens = <<>>
    /\ \E name \in NameInputs :
          /\ name_in' = name
          /\ name_code' = country_name_2_two_digits(name)
    /\ cpc' = "namecode"
    /\ UNCHANGED <<code, three_code, two_code, calls, tokens, iso_coding,
                   full_codes_list, warning, name_call, name_before, name_out>>
    /\ UNCHANGED others_country

NextCountry ==
    \/ \E c \in CodeInputs : Call_two_2_three_digits_country(c)
    \/ Call_three_2_two_digits_country
    \/ \E value1 \in Tokens : AddToken(value1)
    \/ \E iso \in BOOLEAN : Call_create_country_list(iso)
    \/ Call_two_digits_2_name_country
    \/ Call_country_name_2_two_digits
    \/ ReturnCountry

SpecCountry == Init /\ [][NextCountry]_vars

NextTopology ==
    \/ \E row \in LineRows : AddLine(row)
    \/ \E row \in LinkRows : AddLink(row)
    \/ \E value \in UnderwaterFractions : AddUnderwaterFraction(value)
    \/ \E bidir \in BOOLEAN : Call_create_network_topology(bidir)
    \/ ReturnTopology

SpecTopology == Init /\ [][NextTopology]_vars

NextLocate ==
    \/ \E poly \in Polygons : AddPolygon(poly)
    \/ \E country \in Countries, x \in Coordinates : Call_locate_bus(country, x)
    \/ ReturnLocate

SpecLocate == Init /\ [][NextLocate]_vars

\* A file is put at the path (by to_csv_nafix, save_to_geojson or anything
\* else that writes there); a file that is there already is overwritten.
PutFile(f) ==
    /\ OthersIdleFiles
    /\ fpc = "idle"
    /\ file # f
    /\ file' = f
    /\ UNCHANGED <<fpc, read_call, read_out>>
    /\ UNCHANGED others_files

\* save_to_geojson removes the file that is there before it writes the new
\* one (os.path.exists / os.unlink); when the write that follows raises, the
\* path is left without a file.
UnlinkFile ==
    /\ OthersIdleFiles
    /\ fpc = "idle"
    /\ file # Absent
    /\ file' = Absent
    /\ UNCHANGED <<fpc, read_call, read_out>>
    /\ UNCHANGED others_files

Call_read_csv_nafix(kwargs) ==
    /\ OthersIdleFiles
    /\ fpc = "idle"
    /\ file.kind # "geojson"
    /\ read_call' = [reader |-> "read_csv_nafix", kwargs |-> kwargs]
    /\ read_out' = read_csv_nafix(file, kwargs)
    /\ fpc' = "csv"
    /\ UNCHANGED file
    /\ UNCHANGED others_files

Call_read_geojson(cols, dtype, crs) ==
    /\ OthersIdleFiles
    /\ fpc = "idle"
    /\ file.kind # "csv"
    /\ read_call' = [reader |-> "read_geojson", cols |-> cols,
                     dtype |-> dtype, crs |-> crs]
    /\ read_out' = read_geojson(file, cols, dtype, crs)
    /\ fpc' = "geojson"
    /\ UNCHANGED file
    /\ UNCHANGED others_files

ReturnFiles ==
    /\ OthersIdleFiles
    /\ fpc # "idle"
    /\ fpc' = "idle"
    /\ read_call' = NoReadCall
    /\ read_out' = [kind |-> "none", value |-> <<>>]
    /\ UNCHANGED file
    /\ UNCHANGED others_files

NextFiles ==
    \/ \E f \in Files : PutFile(f)
    \/ UnlinkFile
    \/ \E kwargs \in Kwargs : Call_read_csv_nafix(kwargs)
    \/ \E cols \in Cols, dtype \in DTypes, crs \in CRSs :
          Call_read_geojson(cols, dtype, crs)
    \/ ReturnFiles

SpecFiles == Init /\ [][NextFiles]_vars

Call_download_gadm(country_code, update) ==
    /\ OthersIdleGadm
    /\ gpc = "idle"
    /\ downloads < MaxDownloads
    /\ \E fetch \in FetchOutcomes(gadm_filename(country_code)) :
          LET r == download_gadm(gadm_files, downloads, country_code, update, fetch)
          IN  /\ gadm_files' = r.files
              /\ downloads' = r.downloads
              /\ gadm_call' = [function |-> "download_gadm",
                               country_code |-> country_code,
                               update |-> update, fetched |-> r.fetched]
              /\ gadm_out' = r.out
    /\ gpc' = "download"
    /\ UNCHANGED gadm_reads
    /\ UNCHANGED others_gadm

Call_get_gadm_layer(layer_id, update) ==
    /\ OthersIdleGadm
    /\ gpc = "idle"
    /\ downloads < MaxDownloads
    /\ \E country_list \in SeqsUpTo(GadmCountries, MaxCountries) :
       \E fetch \in IF country_list = <<>> THEN {"ok"}
                     ELSE FetchOutcomes(gadm_filename(Head(country_list))) :
          LET r == get_gadm_layer(gadm_files, downloads, country_list,
                                  layer_id, update, fetch)
          IN  /\ gadm_files' = r.files
              /\ downloads' = r.downloads
              /\ gadm_call' = [function |-> "get_gadm_layer",
                               country_list |-> country_list,
                               layer_id |-> layer_id,
                               update |-> update, fetched |-> r.fetched]
              /\ gadm_reads' = r.reads
              /\ gadm_out' = r.out
    /\ gpc' = "layer"
    /\ UNCHANGED others_gadm

ReturnGadm ==
    /\ OthersIdleGadm
    /\ gpc # "idle"
    /\ gpc' = "idle"
    /\ gadm_call' = NoGadmCall
    /\ gadm_reads' = <<>>
    /\ gadm_out' = [kind |-> "none", value |-> <<>>]
    /\ UNCHANGED <<gadm_files, downloads>>
    /\ UNCHANGED others_gadm

NextGadm ==
    \/ \E country_code \in GadmCountries, update \in BOOLEAN :
          Call_download_gadm(country_code, update)
    \/ \E layer_id \in LayerIds, update \in BOOLEAN :
          Call_get_gadm_layer(layer_id, update)
    \/ ReturnGadm

SpecGadm == Init /\ [][NextGadm]_vars

AddAsset(a) ==
    /\ OthersIdleCosts
    /\ kpc = "idle"
    /\ Len(network) < MaxAssets
    /\ network' = Append(network, a)
    /\ UNCHANGED <<kpc, costs_call, costs_out>>
    /\ UNCHANGED others_costs

Call_aggregate_costs(flatten, opts, existing_only) ==
    /\ OthersIdleCosts
    /\ kpc = "idle"
    /\ costs_call' = [flatten |-> flatten, opts |-> opts,
                      existing_only |-> existing_only]
    /\ costs_out' = aggregate_costs(network, flatten, opts, existing_only)
    /\ kpc' = "done"
    /\ UNCHANGED network
    /\ UNCHANGED others_costs

ReturnCosts ==
    /\ OthersIdleCosts
    /\ kpc = "done"
    /\ kpc' = "idle"
    /\ costs_call' = NoCostsCall
    /\ costs_out' = [kind |-> "none", value |-> <<>>]
    /\ UNCHANGED network
    /\ UNCHANGED others_costs

NextCosts ==
    \/ \E a \in Assets : AddAsset(a)
    \/ \E flatten \in BOOLEAN, opts \in Opts, existing_only \in BOOLEAN :
          Call_aggregate_costs(flatten, opts, existing_only)
    \/ ReturnCosts

SpecCosts == Init /\ [][NextCosts]_vars

AddRow(label, value, blocks) ==
    /\ OthersIdleShift
    /\ spc = "idle"
    /\ Len(frame.index) < MaxLen
    /\ frame.index = <<>> \/ frame.blocks = blocks
    /\ frame' = [index |-> Append(frame.index, label),
                 values |-> Append(frame.values, value),
                 blocks |-> blocks]
    /\ UNCHANGED <<spc, shift_call, shift_out>>
    /\ UNCHANGED others_shift

Call_cycling_shift(steps) ==
    /\ OthersIdleShift
    /\ spc = "idle"
    /\ LET r == cycling_shift(frame, steps)
       IN  /\ frame' = r.df
           /\ shift_out' = r.out
    /\ shift_call' = [df |-> frame, steps |-> steps]
    /\ spc' = "done"
    /\ UNCHANGED others_shift

ReturnShift ==
    /\ OthersIdleShift
    /\ spc = "done"
    /\ spc' = "idle"
    /\ shift_call' = NoShiftCall
    /\ shift_out' = [kind |-> "none", value |-> <<>>]
    /\ UNCHANGED frame
    /\ UNCHANGED others_shift

NextShift ==
    \/ \E label \in Labels, value \in Values, blocks \in Blocks :
          AddRow(label, value, blocks)
    \/ \E steps \in Steps : Call_cycling_shift(steps)
    \/ ReturnShift

SpecShift == Init /\ [][NextShift]_vars

SetParam(key, value) ==
    /\ OthersIdleCutout
    /\ upc = "idle"
    /\ key \notin DOMAIN cutout_params
    /\ cutout_params' = set_item(cutout_params, key, value)
    /\ UNCHANGED <<upc, onshore, offshore, given, prepared>>
    /\ UNCHANGED others_cutout

AddOnshore(box) ==
    /\ OthersIdleCutout
    /\ upc = "idle"
    /\ Len(onshore) + Len(offshore) < MaxRegions
    /\ onshore' = Append(onshore, box)
    /\ UNCHANGED <<upc, cutout_params, offshore, given, prepared>>
    /\ UNCHANGED others_cutout

AddOffshore(box) ==
    /\ OthersIdleCutout
    /\ upc = "idle"
    /\ Len(onshore) + Len(offshore) < MaxRegions
    /\ offshore' = Append(offshore, box)
    /\ UNCHANGED <<upc, cutout_params, onshore, given, prepared>>
    /\ UNCHANGED others_cutout

Run_build_cutout ==
    /\ OthersIdleCutout
    /\ upc = "idle"
    /\ LET r == build_cutout(cutout_params, onshore, offshore)
       IN  /\ cutout_params' = r.cutout_params
           /\ prepared' = r.prepared
    /\ given' = cutout_params
    /\ upc' = "done"
    /\ UNCHANGED <<onshore, offshore>>
    /\ UNCHANGED others_cutout

NextCutout ==
    \/ \E key \in DOMAIN ParamValues : \E value \in ParamValues[key] :
          SetParam(key, value)
    \/ \E box \in Boxes : AddOnshore(box)
    \/ \E box \in Boxes : AddOffshore(box)
    \/ Run_build_cutout

SpecCutout == Init /\ [][NextCutout]_vars

\* The process is started in, or has moved to, the directory d.
Chdir(d) ==
    /\ OthersIdleWorkdir
    /\ wpc = "idle"
    /\ d # cwd
    /\ cwd' = d
    /\ UNCHANGED <<wpc, commit_call, commit_out, root_call, loop_n, printed>>
    /\ UNCHANGED others_workdir

Call_get_last_commit_message(path, git) ==
    /\ OthersIdleWorkdir
    /\ wpc = "idle"
    /\ LET r == get_last_commit_message(cwd, path, git)
       IN  /\ cwd' = r.cwd
           /\ commit_out' = [warning |-> r.warning, out |-> r.out]
    /\ commit_call' = [path |-> path, git |-> git, backup_cwd |-> cwd]
    /\ wpc' = "commit"
    /\ UNCHANGED <<root_call, loop_n, printed>>
    /\ UNCHANGED others_workdir

Call_sets_path_to_root(root_directory_name, n0) ==
    /\ OthersIdleWorkdir
    /\ wpc = "idle"
    /\ root_call' = [root_directory_name |-> root_directory_name, n |-> n0,
                     start |-> cwd]
    /\ loop_n' = n0
    /\ printed' = <<>>
    /\ wpc' = "loop"
    /\ UNCHANGED <<cwd, commit_call, commit_out>>
    /\ UNCHANGED others_workdir

\* while n >= 0: one pass through the body.
Iterate_sets_path_to_root ==
    /\ OthersIdleWorkdir
    /\ wpc = "loop"
    /\ loop_n >= 0
    /\ LET r == loop_body(cwd, root_call.root_directory_name, root_call.n,
                          loop_n, printed)
       IN  /\ cwd' = r.cwd
           /\ loop_n' = r.n
           /\ printed' = r.printed
           /\ wpc' = IF r.break THEN "done" ELSE "loop"
    /\ UNCHANGED <<commit_call, commit_out, root_call>>
    /\ UNCHANGED others_workdir

\* The loop condition n >= 0 fails.
Exit_sets_path_to_root ==
    /\ OthersIdleWorkdir
    /\ wpc = "loop"
    /\ loop_n < 0
    /\ wpc' = "done"
    /\ UNCHANGED <<cwd, commit_call, commit_out, root_call, loop_n, printed>>
    /\ UNCHANGED others_workdir

ReturnWorkdir ==
    /\ OthersIdleWorkdir
    /\ wpc \in {"commit", "done"}
    /\ wpc' = "idle"
    /\ commit_call' = NoCommitCall
    /\ commit_out' = NoCommitOut
    /\ root_call' = NoRootCall
    /\ loop_n' = 0
    /\ printed' = <<>>
    /\ UNCHANGED cwd
    /\ UNCHANGED others_workdir

NextWorkdir ==
    \/ \E d \in Dirs : Chdir(d)
    \/ \E path \in Paths, git \in GitOutcomes :
          Call_get_last_commit_message(path, git)
    \/ \E root_directory_name \in RootNames, n0 \in Ns :
          Call_sets_path_to_root(root_directory_name, n0)
    \/ Iterate_sets_path_to_root
    \/ Exit_sets_path_to_root
    \/ ReturnWorkdir

SpecWorkdir == Init /\ [][NextWorkdir]_vars

\* The loop of sets_path_to_root is sequential code that keeps running.
SpecWorkdirFair ==
    /\ SpecWorkdir
    /\ WF_vars(Iterate_sets_path_to_root)
    /\ WF_vars(Exit_sets_path_to_root)

Next ==
    \/ NextCountry \/ NextTopology \/ NextLocate \/ NextFiles \/ NextGadm
    \/ NextCosts \/ NextShift \/ NextCutout \/ NextWorkdir

Spec == Init /\ [][Next]_vars

(***************************************************************************)
(* Properties of the country-code resolver.                                *)
(***************************************************************************)
NoDuplicates(s) == \A i, j \in DOMAIN s : s[i] = s[j] => i = j

\* C1: for every valid 2-letter country code c, converting c to its
\* 3-letter code and the result back to a 2-letter code returns c.
C1_RoundTrip ==
    (cpc = "two" /\ code \in ISO2Codes) => two_code = code

C1_Witness ==
    cpc = "two" /\ code = "NA" /\ three_code = "NAM" /\ two_code = "NA"

\* C2: the composite code "SN-GM" is recognised by exact match before any
\* generic conversion (the composite itself is never handed to
\* coco.convert, only its two sub-codes are, in order), its 3-letter form
\* is the two converted sub-codes joined by "-", and converting that form
\* back returns "SN-GM".
C2_CompositeRoundTrip ==
    (cpc \in {"three", "two"} /\ code = "SN-GM") =>
        /\ three_code = coco_convert("SN", "ISO3") \o "-" \o coco_convert("GM", "ISO3")
        /\ three_code = "SEN-GMB"
        /\ \A i \in DOMAIN calls : calls[i].names \notin {"SN-GM", "SEN-GMB"}
        /\ SubSeq(calls, 1, 2) = <<Call("SN", "ISO3"), Call("GM", "ISO3")>>
        /\ cpc = "two" =>
              /\ two_code = "SN-GM"
              /\ [i \in DOMAIN calls |-> calls[i].names] = <<"SN", "GM", "SN", "GM">>

C2_Witness ==
    cpc = "two" /\ code = "SN-GM" /\ three_code = "SEN-GMB" /\ two_code = "SN-GM"

\* C10: the result of create_country_list holds no code twice, and as a set
\* it depends only on the set of input tokens: every input with the same
\* set of tokens (tokens repeated or reordered) gives the same set of codes;
\* ["NG", "ZA", "NG"] gives exactly {"NG", "ZA"}.
C10_Deduplicated ==
    cpc = "list" =>
        /\ NoDuplicates(full_codes_list)
        /\ \A other \in SeqsUpTo(Range(tokens), MaxTokens) :
              Range(other) = Range(tokens) =>
                 \A r \in create_country_list(other, iso_coding) :
                    Range(r.ret) = Range(full_codes_list)
        /\ tokens = <<"NG", "ZA", "NG">> =>
              /\ Range(full_codes_list) = {"NG", "ZA"}
              /\ Len(full_codes_list) = 2

C10_Witness ==
    /\ cpc = "list"
    /\ tokens = <<"NG", "ZA", "NG">>
    /\ iso_coding
    /\ full_codes_list = <<"ZA", "NG">>

\* The codes listed under any continent of the regions configuration.
AllContinentCodes == UNION {Range(world_iso[k]) : k \in DOMAIN world_iso}

\* C11: create_country_list(["Earth"], iso_coding=True) returns exactly the
\* codes of all continents of the regions configuration that have two
\* characters, each of them once; every returned code has two characters.
C11_EarthIsAllContinents ==
    (cpc = "list" /\ tokens = <<"Earth">> /\ iso_coding) =>
        /\ Range(full_codes_list) = {c \in AllContinentCodes : Len(c) = 2}
        /\ NoDuplicates(full_codes_list)
        /\ \A i \in DOMAIN full_codes_list : Len(full_codes_list[i]) = 2

C11_Witness ==
    /\ cpc = "list"
    /\ tokens = <<"Earth">>
    /\ iso_coding
    /\ full_codes_list = <<"EG", "ZA", "NG">>
    /\ warning.codes = {"SN-GM"}

\* The expanded tokens of the stored input that filter_codes removes.
Dropped == {c \in Range(expand_input(tokens)) : Len(c) # 2}

\* C12: with iso_coding=True the result holds exactly the expanded tokens
\* of length 2 (every token of another length is dropped, no other is); a
\* warning is logged iff some token was dropped, it names exactly the
\* dropped tokens, and the call returns its list.
C12_FilterAndWarn ==
    (cpc = "list" /\ iso_coding) =>
        /\ Range(full_codes_list) = Range(expand_input(tokens)) \ Dropped
        /\ warning.logged <=> Dropped # {}
        /\ warning.codes = Dropped

C12_Witness ==
    /\ cpc = "list"
    /\ iso_coding
    /\ tokens = <<"SAPP", "Africa">>
    /\ Range(full_codes_list) = {"NG", "ZA", "EG"}
    /\ warning = [logged |-> TRUE, codes |-> {"SN-GM"}]

\* A call of two_digits_2_name_country with a non-empty list of start
\* words for a code other than the composite one has returned.
Stripping ==
    /\ cpc = "name"
    /\ name_call.remove_start_words # <<>>
    /\ name_call.two_code_country # "SN-GM"

\* s without its first n characters.
Drop(s, n) == SubSeq(s, n + 1, Len(s))

\* The words of the list at the positions J, in list order, as one string.
RECURSIVE ConcatWords(_, _)
ConcatWords(words, J) ==
    IF words = <<>> THEN <<>>
    ELSE (IF 1 \in J THEN Head(words) ELSE <<>>)
            \o ConcatWords(Tail(words), {j - 1 : j \in J \ {1}})

\* C13 as stated: with a non-empty remove_start_words at most one leading
\* word is stripped, namely the first word of the list that the name
\* starts with, and no later word is applied to the shortened name.
C13_FirstMatchOnly ==
    Stripping =>
        LET words == name_call.remove_start_words
            matching == {k \in DOMAIN words : startswith(name_before, words[k])}
        IN  IF matching = {} THEN name_out = name_before
            ELSE LET k == CHOOSE i \in matching : \A j \in matching : i <= j
                 IN  name_out = Drop(name_before, Len(words[k]))

\* C13 amended: every word of the list is tried once, in list order,
\* against the name as the earlier words left it, and is removed from its
\* front when that name starts with it (case-sensitive); so the returned
\* name is the name without the removed words J, and a word is among them
\* exactly when what remained at its turn started with it.  The composite
\* code returns its name with nothing removed.
C13_EveryWordInTurn ==
    /\ Stripping =>
          LET words == name_call.remove_start_words
          IN  \E J \in SUBSET DOMAIN words :
                 /\ name_before = ConcatWords(words, J) \o name_out
                 /\ \A k \in DOMAIN words :
                       k \in J <=>
                          startswith(
                             Drop(name_before,
                                  Len(ConcatWords(words, J \cap 1..(k - 1)))),
                             words[k])
    /\ (cpc = "name" /\ name_call.two_code_country = "SN-GM") =>
          name_out = <<"S", "e", "n", "e", "g", "a", "l", "-", "G", "a", "m", "b", "i", "a">>

\* "Democratic Republic of the Congo" loses "Democratic" and then " ".
C13_Witness ==
    /\ cpc = "name"
    /\ name_call = [two_code_country |-> "CD", name_string |-> "name_official",
                    no_comma |-> TRUE,
                    remove_start_words |->
                        <<<<"D", "e", "m", "o", "c", "r", "a", "t", "i", "c">>, <<" ">>>>]
    /\ name_before = <<"D", "e", "m", "o", "c", "r", "a", "t", "i", "c", " ", "R", "e", "p", "u", "b", "l", "i", "c", " ">>
          \o <<"o", "f", " ", "t", "h", "e", " ", "C", "o", "n", "g", "o">>
    /\ name_out = <<"R", "e", "p", "u", "b", "l", "i", "c", " ", "o", "f", " ", "t", "h", "e", " ", "C", "o", "n", "g", "o">>

\* A token that is no code, no 3-letter code and no name of the table.
Unresolvable(x) ==
    \A i \in DOMAIN CountryData :
        x \notin {CountryData[i].ISO2, CountryData[i].ISO3, CountryData[i].name_short}

UnresolvableName(x) ==
    \A c \in DOMAIN CountryNames :
        x \notin {CountryNames[c].name_short, CountryNames[c].name_official}

\* C15: for an input that the conversion cannot resolve (and that is not
\* the composite), two_2_three_digits_country, three_2_two_digits_country
\* and country_name_2_two_digits return the not-found value of the
\* conversion step as it is: no default and not the input token.
C15_NotFoundHandedOn ==
    /\ (cpc \in {"three", "two"} /\ code # "SN-GM" /\ Unresolvable(code)) =>
          three_code = NotFound
    /\ (cpc = "two" /\ three_code # "SEN-GMB" /\ Unresolvable(three_code)) =>
          two_code = NotFound
    /\ (cpc = "namecode" /\ UnresolvableName(name_in)
           /\ name_in # <<"S", "e", "n", "e", "g", "a", "l", "-", "G", "a", "m", "b", "i", "a">>) =>
          name_code = NotFound

C15_Witness ==
    /\ cpc = "two"
    /\ code = "XX"
    /\ three_code = "not found"
    /\ two_code = "not found"
    /\ calls = <<Call("XX", "ISO3"), Call("not found", "ISO2")>>

(***************************************************************************)
(* Properties of the network-topology builder.                             *)
(***************************************************************************)
\* The connections the builder reads: the lines and the DC links.
Connections ==
    [i \in DOMAIN lines |-> [bus0 |-> lines[i].bus0, bus1 |-> lines[i].bus1,
                             length |-> lines[i].length]]
    \o
    SelectSeq([i \in DOMAIN links |->
                  [bus0 |-> links[i].bus0, bus1 |-> links[i].bus1,
                   length |-> links[i].length, carrier |-> links[i].carrier]],
              LAMBDA r : r.carrier = "DC")

Ends(r) == {r.bus0, r.bus1}

RECURSIVE SumLengths(_, _)
SumLengths(conn, I) ==
    IF I = {} THEN 0
    ELSE LET i == CHOOSE i \in I : TRUE
         IN  conn[i].length + SumLengths(conn, I \ {i})

\* C3: with bidirectional=True the result has exactly one row for each
\* undirected bus pair that occurs among the lines and the DC links, and
\* no row for any other pair (such as one that occurs only among links of
\* another carrier).
C3_OneRowPerPair ==
    (tpc = "done" /\ bidirectional) =>
        LET pairs == {Ends(Connections[i]) : i \in DOMAIN Connections}
        IN  /\ \A p \in pairs :
                  Cardinality({i \in DOMAIN topo : Ends(topo[i]) = p}) = 1
            /\ \A i \in DOMAIN topo : Ends(topo[i]) \in pairs

C3_Witness ==
    /\ tpc = "done" /\ bidirectional
    /\ Len(lines) = 2 /\ lines[1].bus0 = lines[2].bus1 /\ lines[1].bus1 = lines[2].bus0
    /\ lines[1].bus0 # lines[1].bus1
    /\ Len(links) = 1 /\ links[1].carrier = "H2" /\ links[1].bus0 = links[1].bus1
    /\ Len(topo) = 1

\* C4: parallel connections between the same two buses, in either endpoint
\* order, give a single row whose length is the arithmetic mean of the
\* lengths of all of them, and permuting the rows of the line table and of
\* the link table does not change the set of returned rows.
C4_MeanOfParallel ==
    tpc = "done" =>
        /\ \A i \in DOMAIN topo :
              LET same == {k \in DOMAIN Connections :
                              Ends(Connections[k]) = Ends(topo[i])}
              IN  /\ topo[i].length.num * Cardinality(same)
                        = SumLengths(Connections, same) * topo[i].length.den
                  /\ \A j \in DOMAIN topo :
                        (topo[j].bus0 = topo[i].bus0 /\ topo[j].bus1 = topo[i].bus1
                         /\ j # i) => ~bidirectional
        /\ \A pl \in SeqPermutations(lines), pk \in SeqPermutations(links) :
              LET permuted == create_network_topology(pl, pk, Prefix, Connector,
                                                      bidirectional)
              IN  permuted.kind = "return" /\ Range(permuted.value) = Range(topo)

C4_Witness ==
    /\ tpc = "done" /\ bidirectional
    /\ Len(lines) = 2 /\ Len(links) = 1 /\ links[1].carrier = "DC"
    /\ lines[1].bus0 = <<"B">> /\ lines[1].bus1 # <<"B">> /\ lines[1].length = 1
    /\ lines[2].bus1 = <<"B">> /\ lines[2].bus0 # <<"B">> /\ lines[2].length = 1
    /\ links[1].bus0 = <<"B">> /\ links[1].bus1 # <<"B">>
    /\ Len(topo) = 1 /\ topo[1].length = [num |-> 5, den |-> 3]

\* C5 as stated: in every row returned with bidirectional=True, bus0 is
\* lexicographically strictly smaller than bus1.
C5_StrictlySmaller ==
    (tpc = "done" /\ bidirectional) =>
        \A i \in DOMAIN topo : str_lt(topo[i].bus0, topo[i].bus1)

\* C5 as amended: in every row returned with bidirectional=True, bus0 is
\* lexicographically smaller than or equal to bus1; it is strictly smaller
\* unless the row stands for connections whose two endpoints are the same
\* bus, and such a row has bus0 = bus1.
C5_CanonicalDirection ==
    (tpc = "done" /\ bidirectional) =>
        \A i \in DOMAIN topo :
            /\ ~str_lt(topo[i].bus1, topo[i].bus0)
            /\ topo[i].bus0 # topo[i].bus1 => str_lt(topo[i].bus0, topo[i].bus1)
            /\ topo[i].bus0 = topo[i].bus1 =>
                  \E k \in DOMAIN Connections :
                      /\ Connections[k].bus0 = topo[i].bus0
                      /\ Connections[k].bus1 = topo[i].bus0

C5_Witness ==
    /\ tpc = "done" /\ bidirectional
    /\ Len(lines) = 2
    /\ str_lt(lines[1].bus1, lines[1].bus0)
    /\ lines[2].bus0 = lines[2].bus1
    /\ Len(topo) = 2
    /\ topo[1].bus0 = topo[1].bus1
    /\ str_lt(topo[2].bus0, topo[2].bus1)

\* C6: with bidirectional=False the result is the bidirectional=True result
\* followed, for each of its rows (bus0 = a, bus1 = b), by one row with
\* bus0 = b, bus1 = a, the same length and the index
\* prefix + b + connector + a: twice as many rows, and exactly two rows for
\* a single line.
C6_ReverseRows ==
    (tpc = "done" /\ ~bidirectional) =>
        LET fwd == create_network_topology(lines, links, Prefix, Connector, TRUE).value
            n == Len(fwd)
        IN  /\ Len(topo) = 2 * n
            /\ \A i \in 1..n :
                  /\ topo[i] = fwd[i]
                  /\ topo[i].index = Prefix \o topo[i].bus0 \o Connector \o topo[i].bus1
                  /\ topo[n + i].bus0 = fwd[i].bus1
                  /\ topo[n + i].bus1 = fwd[i].bus0
                  /\ topo[n + i].length = fwd[i].length
                  /\ topo[n + i].index = Prefix \o fwd[i].bus1 \o Connector \o fwd[i].bus0
            /\ (Len(lines) = 1 /\ links = <<>>) => Len(topo) = 2

C6_Witness ==
    /\ tpc = "done" /\ ~bidirectional
    /\ Len(lines) = 1 /\ links = <<>>
    /\ lines[1].bus0 # lines[1].bus1
    /\ Len(topo) = 2
    /\ topo[2].bus0 = topo[1].bus1 /\ topo[2].bus1 = topo[1].bus0
    /\ topo[2].index = Prefix \o topo[1].bus1 \o Connector \o topo[1].bus0

(***************************************************************************)
(* Properties of the administrative-boundary locator.                      *)
(***************************************************************************)
\* The country-filtered layer of the call.
Filtered == filter_country(gdf, co)

Containing == {i \in DOMAIN Filtered : contains(Filtered[i], point)}

\* C7: whenever at least one polygon of the country-filtered layer contains
\* the point, locate_bus returns the identifier of the first such polygon
\* in layer order.
C7_FirstContaining ==
    (lpc = "done" /\ Containing # {}) =>
        LET first == CHOOSE i \in Containing : \A j \in Containing : i <= j
        IN  bus = Returned(Filtered[first].name)

\* C8: when the country-filtered layer is not empty and none of its
\* polygons contains the point, locate_bus returns the identifier of a
\* polygon at minimal distance from the point.
C8_NearestFallback ==
    (lpc = "done" /\ Filtered # <<>> /\ Containing = {}) =>
        /\ bus.kind = "return"
        /\ \E i \in DOMAIN Filtered :
              /\ bus.value = Filtered[i].name
              /\ \A j \in DOMAIN Filtered :
                    distance(Filtered[i], point) <= distance(Filtered[j], point)

\* C9: when no row of the layer matches the country code, locate_bus ends
\* in an error (ValueError) and returns no identifier.
C9_EmptySelectionFails ==
    (lpc = "done" /\ Filtered = <<>>) => bus.kind = "ValueError"

C9_Witness ==
    /\ lpc = "done"
    /\ Len(gdf) = 2
    /\ co = <<"N", "G">>
    /\ contains(gdf[1], point)
    /\ Filtered = <<>>
    /\ bus = ValueError

(***************************************************************************)
(* Properties of the file readers.                                         *)
(***************************************************************************)
\* A reader has been called on a file of no byte or on a file whose bytes
\* it cannot parse.
ReadZeroByte == fpc # "idle" /\ file = ZeroByte
ReadMalformed == fpc # "idle" /\ file = Garbage

\* The outcome is an empty container of the reader: an empty DataFrame, or
\* an empty GeoDataFrame with the requested columns and CRS.
EmptyContainer ==
    /\ read_out.kind = "return"
    /\ read_out.value.rows = <<>>
    /\ fpc = "csv" => read_out.value.type = "DataFrame"
    /\ fpc = "geojson" =>
          /\ read_out.value.type = "GeoDataFrame"
          /\ Range(read_call.cols) \subseteq Range(read_out.value.columns)
          /\ read_out.value.crs = read_call.crs

\* C14 as stated: read_csv_nafix and read_geojson return an empty typed
\* container instead of raising, for a zero-byte file and for a malformed
\* (non-empty, unparsable) file alike.
C14_EmptyForZeroByteAndMalformed ==
    (ReadZeroByte \/ ReadMalformed) => EmptyContainer

\* C14 amended: for a zero-byte file read_csv_nafix returns an empty
\* DataFrame without columns, and read_geojson returns an empty
\* GeoDataFrame with the requested columns and CRS, unless dtype names a
\* column the frame does not have (KeyError); a non-empty file goes to the
\* library reader and the error it raises for a malformed file reaches the
\* caller.
C14_EmptyForZeroByteOnly ==
    /\ (ReadZeroByte /\ fpc = "csv") =>
          EmptyContainer /\ read_out.value.columns = <<>>
    /\ (ReadZeroByte /\ fpc = "geojson") =>
          IF \A kv \in read_call.dtype :
                kv[1] \in Range(read_call.cols) \cup {"geometry"}
          THEN EmptyContainer /\ read_out.value.dtypes = read_call.dtype
          ELSE read_out.kind = "KeyError"
    /\ ReadMalformed =>
          read_out.kind = IF fpc = "csv" THEN "ParserError" ELSE "DriverError"

C14_Witness ==
    /\ fpc = "geojson"
    /\ file = ZeroByte
    /\ read_call.cols = <<"name">>
    /\ read_call.dtype = {<<"name", "str">>}
    /\ read_call.crs = "EPSG:3857"
    /\ read_out =
          Returned([type |-> "GeoDataFrame", columns |-> <<"name", "geometry">>,
                    dtypes |-> {<<"name", "str">>}, crs |-> "EPSG:3857",
                    rows |-> <<>>])

(***************************************************************************)
(* Properties of the GADM functions.                                       *)
(***************************************************************************)
\* C16: the layer get_gadm_layer reads for a country (the level of the
\* GID column that GADM_ID is copied from) is the last layer whenever
\* layer_id is negative or at least the number of layers, and layer number
\* layer_id otherwise.
C16_LastLayerWhenOutOfRange ==
    (gpc = "layer" /\ gadm_reads # <<>>) =>
        LET n == Len(listlayers(Head(gadm_call.country_list)))
            layer_id == gadm_call.layer_id
        IN  gadm_reads[1].code_layer =
               IF layer_id < 0 \/ layer_id >= n THEN n - 1 ELSE layer_id

\* The gpkg file of a country and what download_gadm returns for it.
CachedFile(country_code) == gadm_files[gadm_filename(country_code)]
PathAndName(country_code) ==
    <<"data/raw/gadm/gadm36_" \o coco_convert(country_code, "ISO3")
         \o "/gadm36_" \o coco_convert(country_code, "ISO3") \o ".gpkg",
      "gadm36_" \o coco_convert(country_code, "ISO3")>>

\* C17: a call of download_gadm requests the archive iff the gpkg file is
\* absent or update is True; once a fetch has stored the file, a call with
\* update=False makes no request, leaves every file as it is and returns
\* the path and the name of the file.
C17_FetchIffAbsentOrUpdate ==
    [][(gpc = "idle" /\ gpc' = "download") =>
          LET c == gadm_call'.country_code
              update == gadm_call'.update
          IN  /\ (downloads' # downloads) <=> (CachedFile(c) = 0 \/ update)
              /\ (CachedFile(c) # 0 /\ ~update) =>
                    /\ gadm_files' = gadm_files
                    /\ downloads' = downloads
                    /\ gadm_out' = Returned(PathAndName(c))]_vars

C17_Witness ==
    /\ gpc = "download"
    /\ gadm_call = [function |-> "download_gadm", country_code |-> "NG",
                    update |-> FALSE, fetched |-> FALSE]
    /\ gadm_files[gadm_filename("NG")] = 1
    /\ downloads = 1
    /\ gadm_out = Returned(<<"data/raw/gadm/gadm36_NGA/gadm36_NGA.gpkg",
                             "gadm36_NGA">>)

(***************************************************************************)
(* Properties of the cost aggregation.                                     *)
(***************************************************************************)
\* The components that have a dispatch series, hence marginal costs.
Dispatching == {"Link", "Generator", "StorageUnit", "Store"}

ListName(component) ==
    components_dict[CHOOSE i \in DOMAIN components_dict :
                       components_dict[i].name = component].list_name

Carriers == {network[i].carrier : i \in DOMAIN network}

\* The components that have the carrier k, and those of them that have a
\* marginal cost.
ComponentsOf(k) ==
    {network[i].component : i \in {j \in DOMAIN network : network[j].carrier = k}}

DispatchingOf(k) == ComponentsOf(k) \cap Dispatching

\* The capital cost and the marginal cost of the assets of carrier k in
\* component c.
CapitalOf(c, k) ==
    SumSeq([i \in DOMAIN network |->
               IF network[i].carrier # k \/ network[i].component # c THEN 0
               ELSE network[i].capital_cost
                       * (IF costs_call.existing_only THEN network[i].p_nom
                          ELSE network[i].p_nom_opt)])

MarginalOf(c, k) ==
    SumSeq([i \in DOMAIN network |->
               IF network[i].carrier # k \/ network[i].component # c
                     \/ (c = "StorageUnit" /\ network[i].p <= 0)
               THEN 0
               ELSE network[i].p * network[i].marginal_cost])

\* The capital cost and the marginal cost of all assets of a carrier.
Capital(k) ==
    SumSeq([i \in DOMAIN network |->
               IF network[i].carrier # k THEN 0
               ELSE network[i].capital_cost
                       * (IF costs_call.existing_only THEN network[i].p_nom
                          ELSE network[i].p_nom_opt)])

Marginal(k) ==
    SumSeq([i \in DOMAIN network |->
               IF network[i].carrier # k
                     \/ network[i].component \notin Dispatching
                     \/ (network[i].component = "StorageUnit" /\ network[i].p <= 0)
               THEN 0
               ELSE network[i].p * network[i].marginal_cost])

HasMarginal(k) == DispatchingOf(k) # {}

Flattened ==
    /\ kpc = "done"
    /\ costs_call.flatten
    /\ costs_call.opts.given
    /\ costs_out.kind = "return"

\* The values of the entries of a flattened series under one label, in the
\* order of the series.
EntriesOf(series, l) ==
    LET es == SelectSeq(series, LAMBDA e : e.label = l)
    IN  [i \in DOMAIN es |-> es[i].value]

\* Two sequences have the same elements with the same multiplicities.
SameEntries(s, t) ==
    /\ Len(s) = Len(t)
    /\ \A v \in Range(s) \cup Range(t) :
          Cardinality({i \in DOMAIN s : s[i] = v})
             = Cardinality({i \in DOMAIN t : t[i] = v})

\* The capital costs, the marginal costs and the sums of both of carrier k,
\* one value per component that has the carrier.
CapitalPerComponent(k) ==
    LET cs == SelectSeq([i \in DOMAIN components_dict |-> components_dict[i].name],
                        LAMBDA c : c \in ComponentsOf(k))
    IN  [i \in DOMAIN cs |-> CapitalOf(cs[i], k)]

MarginalPerComponent(k) ==
    LET cs == SelectSeq([i \in DOMAIN components_dict |-> components_dict[i].name],
                        LAMBDA c : c \in DispatchingOf(k))
    IN  [i \in DOMAIN cs |-> MarginalOf(cs[i], k)]

\* The capital and the marginal entries of the flattened series have the
\* same labels in the same order: no carrier is conventional and every
\* component of the network has a dispatch series.
SameLabels ==
    /\ \A k \in Carriers : k \notin costs_call.opts.conv_techs
    /\ \A i \in DOMAIN network : network[i].component \in Dispatching

\* C18 as stated: with flatten=True and a set of conventional carriers the
\* result is one carrier-keyed series in which every marginal-cost entry has
\* the suffix " marginal", so that the entry of a carrier is its capital
\* cost alone.
C18_EveryMarginalSuffixed ==
    Flattened =>
        \A k \in Carriers :
            /\ EntriesOf(costs_out.value, k) = <<Capital(k)>>
            /\ HasMarginal(k) =>
                  EntriesOf(costs_out.value, k \o " marginal") = <<Marginal(k)>>

\* C18 amended: without flatten the result has one capital entry per
\* (component, carrier) and one marginal entry per (component, carrier) of
\* a component with a dispatch series.  With flatten=True and conventional
\* carriers conv_techs the labels of the result are the carriers and
\* "<carrier> marginal" for the conventional carriers that have a marginal
\* cost.  A conventional carrier has its capital costs under its own label
\* and its marginal costs under "<carrier> marginal", one entry per
\* component each.  For any other carrier the marginal cost is added to the
\* capital cost under the label of the carrier: one entry when the carrier
\* is in one component; when it is in several components, one entry per
\* component if the capital and the marginal entries have the same labels
\* in the same order, and otherwise one entry for every pair of a component
\* and a dispatching component of the carrier (its capital costs alone when
\* no component of it has a marginal cost).
C18_ConventionalSuffixed ==
    /\ (kpc = "done" /\ ~costs_call.flatten /\ costs_out.kind = "return") =>
          /\ DOMAIN costs_out.value =
                {<<ListName(network[i].component), "capital", network[i].carrier>> :
                    i \in DOMAIN network}
                \cup {<<ListName(network[i].component), "marginal", network[i].carrier>> :
                    i \in {j \in DOMAIN network :
                              network[j].component \in Dispatching}}
          /\ \A i \in DOMAIN network :
                LET c == network[i].component
                    k == network[i].carrier
                IN  /\ costs_out.value[<<ListName(c), "capital", k>>] = CapitalOf(c, k)
                    /\ c \in Dispatching =>
                          costs_out.value[<<ListName(c), "marginal", k>>]
                             = MarginalOf(c, k)
    /\ Flattened =>
          LET out == costs_out.value
              conv == {k \in Carriers :
                         k \in costs_call.opts.conv_techs /\ HasMarginal(k)}
          IN  /\ {out[i].label : i \in DOMAIN out} =
                    Carriers \cup {k \o " marginal" : k \in conv}
              /\ \A k \in conv :
                    /\ SameEntries(EntriesOf(out, k), CapitalPerComponent(k))
                    /\ SameEntries(EntriesOf(out, k \o " marginal"),
                                   MarginalPerComponent(k))
              /\ \A k \in Carriers \ conv :
                    LET capital == CapitalPerComponent(k)
                        marginal == MarginalPerComponent(k)
                    IN  /\ Cardinality(ComponentsOf(k)) = 1 =>
                              EntriesOf(out, k) = <<Capital(k) + Marginal(k)>>
                        /\ SameEntries(EntriesOf(out, k),
                              IF marginal = <<>> THEN capital
                              ELSE IF SameLabels
                              THEN [i \in DOMAIN capital |-> capital[i] + marginal[i]]
                              ELSE Flatten([i \in DOMAIN capital |->
                                      [j \in DOMAIN marginal |->
                                          capital[i] + marginal[j]]]))

\* A conventional carrier, and a carrier of two components whose capital
\* and marginal costs are added pair by pair.
C18_Witness ==
    /\ kpc = "done"
    /\ costs_call = [flatten |-> TRUE,
                     opts |-> [given |-> TRUE, conv_techs |-> {"OCGT"}],
                     existing_only |-> FALSE]
    /\ Carriers = {"OCGT", "battery"}
    /\ ComponentsOf("battery") = {"StorageUnit", "Store"}
    /\ costs_out.kind = "return"
    /\ EntriesOf(costs_out.value, "OCGT") = <<10>>
    /\ EntriesOf(costs_out.value, "OCGT marginal") = <<6>>
    /\ SameEntries(EntriesOf(costs_out.value, "battery"), <<16, 8, 20, 12>>)

(***************************************************************************)
(* Properties of the cyclic shift.                                         *)
(***************************************************************************)
UniqueLabels(df) == NoDuplicates(df.index)

\* The outcome is df shifted by position: a frame with the index of df
\* whose value at position i is the value of df at (i - steps) mod len(df).
ShiftedByPosition(out, df, steps) ==
    /\ out.kind = "return"
    /\ out.value.index = df.index
    /\ DOMAIN out.value.values = DOMAIN df.values
    /\ \A i \in DOMAIN df.values :
          out.value.values[i] = df.values[((i - 1 - steps) % Len(df.values)) + 1]

\* C19 as stated: for every df and every integer steps cycling_shift
\* returns a new object with the index of df whose value at position i is
\* the value of df at position (i - steps) mod len(df), and df itself is
\* not modified.
C19_ShiftOfEveryFrame ==
    spc = "done" =>
        /\ ShiftedByPosition(shift_out, shift_call.df, shift_call.steps)
        /\ frame = shift_call.df

\* What cycling_shift does, case by case (C19): df is never modified.  For
\* a Series or single-dtype frame whose index labels are pairwise distinct
\* the result is df shifted by position.  With a repeated label the call
\* raises ValueError, unless the rolled index equals the index, and then
\* the values come back unshifted; for a frame with columns of two dtypes
\* the values come back unshifted as well.
C19_ShiftOfUniquelyLabelled ==
    spc = "done" =>
        LET df == shift_call.df
            steps == shift_call.steps
        IN  /\ frame = df
            /\ (UniqueLabels(df) /\ df.blocks = 1) =>
                  /\ ShiftedByPosition(shift_out, df, steps)
                  /\ steps = Len(df.index) => shift_out.value = df
                  /\ \A b \in Steps :
                        cycling_shift(shift_out.value, b).out
                           = cycling_shift(df, steps + b).out
            /\ (~UniqueLabels(df) /\ np_roll(df.index, steps) # df.index) =>
                  shift_out = ValueError
            /\ (~UniqueLabels(df) /\ np_roll(df.index, steps) = df.index) =>
                  shift_out = Returned(df)
            /\ (UniqueLabels(df) /\ df.blocks = 2) =>
                  shift_out = Returned(df)

(***************************************************************************)
(* Properties of build_cutout.                                             *)
(***************************************************************************)
\* The extent keys the configuration supplied.
SuppliedExtent == {"x", "y", "bounds"} \cap DOMAIN given

\* The grid step the configuration gives for a key, 0.25 degrees without.
Step(key) == IF key \in DOMAIN given THEN given[key] ELSE 25

\* C20: when the cutout parameters have none of the keys "x", "y" and
\* "bounds", the bounds are the total bounds of the onshore and offshore
\* regions together, moved outwards on all four sides by d = 2 * max(dx, dy)
\* with dx and dy 0.25 by default; when one of the three keys is supplied,
\* no bounds are derived and the supplied extents stay as they are (x and
\* y given together are handed on as slices of the same two numbers).
C20_BoundsFromRegions ==
    upc = "done" =>
        LET regions == onshore \o offshore
            d == 2 * (IF Step("dx") >= Step("dy") THEN Step("dx") ELSE Step("dy"))
        IN  /\ SuppliedExtent = {} =>
                  /\ {"x", "y", "bounds"} \cap DOMAIN cutout_params = {"bounds"}
                  /\ prepared.cutout["bounds"] = cutout_params["bounds"]
                  /\ regions = <<>> =>
                        cutout_params["bounds"] = <<NaN, NaN, NaN, NaN>>
                  /\ regions # <<>> =>
                        LET b == cutout_params["bounds"]
                        IN  /\ \A i \in DOMAIN regions :
                                  /\ b[1] + d <= regions[i][1]
                                  /\ b[2] + d <= regions[i][2]
                                  /\ b[3] - d >= regions[i][3]
                                  /\ b[4] - d >= regions[i][4]
                            /\ \A c \in 1..4 :
                                  \E i \in DOMAIN regions :
                                     regions[i][c] = b[c] + (IF c <= 2 THEN d ELSE -d)
            /\ SuppliedExtent # {} =>
                  /\ {"x", "y", "bounds"} \cap DOMAIN cutout_params = SuppliedExtent
                  /\ {"x", "y", "bounds"} \cap DOMAIN prepared.cutout = SuppliedExtent
                  /\ "bounds" \in SuppliedExtent =>
                        cutout_params["bounds"] = given["bounds"]
                  /\ \A k \in SuppliedExtent \cap {"x", "y"} :
                        IF {"x", "y"} \subseteq SuppliedExtent
                        THEN <<cutout_params[k].start, cutout_params[k].stop>>
                                = given[k]
                        ELSE cutout_params[k] = given[k]

C20_Witness ==
    /\ upc = "done"
    /\ DOMAIN given = {"dx", "features"}
    /\ given["dx"] = 50
    /\ onshore = << <<0, 0, 200, 100>> >>
    /\ offshore = << <<-100, 50, 100, 300>> >>
    /\ cutout_params["bounds"] = <<-200, -100, 300, 400>>
    /\ prepared.features = <<"wind">>

(***************************************************************************)
(* The index and the frame of the network-topology builder.                *)
(***************************************************************************)
\* C21: the index keys of the table create_network_topology returns are
\* pairwise distinct, with bidirectional=True and with bidirectional=False,
\* whatever the lines and links are (a connection from a bus to itself and
\* bus names that contain the connector included).
C21_DistinctIndexKeys ==
    tpc = "done" =>
        \A i, j \in DOMAIN topo : i # j => topo[i].index # topo[j].index

\* A step in which create_network_topology is called and returns or raises.
CallOfBuilder == tpc = "idle" /\ tpc' \in {"done", "raised"}

\* C22: create_network_topology leaves the network it is given as it was:
\* after the call the line table and the link table have the same columns
\* and the same values as before, with or without a column
\* underwater_fraction in the link table, empty or not.
C22_NetworkUnchanged ==
    [][CallOfBuilder =>
          /\ lines' = lines
          /\ links' = links
          /\ links_columns' = links_columns]_vars

\* C22 as amended: the line table is left as it was, and so is a link table
\* that has the column underwater_fraction; a link table without it gets
\* the column, with 0.0 in every row (no value when it has no row), and
\* keeps every other column and value.
C22_OnlyMissingColumnAdded ==
    [][CallOfBuilder =>
          /\ lines' = lines
          /\ "underwater_fraction" \in links_columns =>
                links' = links /\ links_columns' = links_columns
          /\ "underwater_fraction" \notin links_columns =>
                /\ links_columns' = links_columns \cup {"underwater_fraction"}
                /\ Len(links') = Len(links)
                /\ \A i \in DOMAIN links :
                      /\ DOMAIN links'[i] = links_columns'
                      /\ links'[i].underwater_fraction = 0
                      /\ \A c \in links_columns : links'[i][c] = links[i][c]]_vars

C22_Witness ==
    /\ tpc = "done"
    /\ Len(links) = 2
    /\ links[1].carrier = "H2" /\ links[2].carrier = "DC"
    /\ links[1].underwater_fraction = 0 /\ links[2].underwater_fraction = 0
    /\ "underwater_fraction" \in links_columns

(***************************************************************************)
(* Properties of the functions that change the working directory.          *)
(***************************************************************************)
\* C23: get_last_commit_message leaves the working directory of the process
\* as it was on every way out: after it has returned or raised (git has
\* succeeded, git has exited with an error, git could not be started, or
\* path does not exist) the working directory is the one at entry; and
\* when git exits with an error it returns None after logging a warning.
C23_WorkdirRestored ==
    wpc = "commit" =>
        /\ cwd = commit_call.backup_cwd
        /\ (commit_call.path \in Dirs /\ commit_call.git = "CalledProcessError") =>
              /\ commit_out.warning
              /\ commit_out.out.kind = "return"
              /\ commit_out.out.value = None

\* sets_path_to_root has printed that the current folder is the repository.
Found == \E i \in DOMAIN printed : printed[i].text = "This is the repository path: "

\* sets_path_to_root has printed "Can't find the repo path.".
Reported == \E i \in DOMAIN printed : printed[i].text = "Can't find the repo path."

\* The number of folders the working directory is above the start.
FoldersUp == Len(root_call.start) - Len(cwd)

\* C24: sets_path_to_root terminates for every n >= 0 and every start
\* directory; when none of the directories it has examined has the name
\* root_directory_name it reports "Can't find the repo path." and does not
\* change the working directory after that report; and in no run does it
\* move the working directory up more than n folders.
C24_BoundedSearch ==
    /\ (wpc = "loop" /\ root_call.n >= 0) ~> (wpc = "done")
    /\ []((wpc = "done" /\ root_call.n >= 0 /\ ~Found) => Reported)
    /\ [][(wpc = "loop" /\ Reported) => cwd' = cwd]_vars
    /\ []((wpc \in {"loop", "done"} /\ root_call.n >= 0) =>
              FoldersUp <= root_call.n)
=============================================================================
